---- MODULE Spec2Model ----
(***************************************************************************)
(* Model of the audit ledger: the redaction engine (src/redact.ts), the    *)
(* record schema (src/schema.ts), the ledger store (src/ledger.ts) and the *)
(* writing commands of the command line (src/cli.ts).                      *)
(*                                                                         *)
(* Strings are sequences of one-character strings, so that the regular     *)
(* expressions of the pattern catalog are evaluated character by           *)
(* character.  JSON values are records [kind, val].                        *)
(***************************************************************************)
EXTENDS Integers, Sequences, FiniteSets, TLC

\* ---------------------------------------------------------------------
\* Characters and character classes
\* ---------------------------------------------------------------------
Lower == {"a","b","c","d","e","f","g","h","i","j","k","l","m","n","o","p","q","r","s","t","u","v","w","x","y","z"}
Upper == {"A","B","C","D","E","F","G","H","I","J","K","L","M","N","O","P","Q","R","S","T","U","V","W","X","Y","Z"}
Digit == {"0","1","2","3","4","5","6","7","8","9"}
Alnum == Lower \cup Upper \cup Digit
\* \w
WordCh == Alnum \cup {"_"}
\* \s (the ASCII members)
SpaceCh == {" ", "\t", "\n", "\r", "\f"}
\* line terminators, which . does not match
LineTerm == {"\n", "\r"}

LowerSeq == <<"a","b","c","d","e","f","g","h","i","j","k","l","m","n","o","p","q","r","s","t","u","v","w","x","y","z">>
UpperSeq == <<"A","B","C","D","E","F","G","H","I","J","K","L","M","N","O","P","Q","R","S","T","U","V","W","X","Y","Z">>

\* the same letter in the other case
OtherCase == [k \in 1..26 |-> LowerSeq[k] :> UpperSeq[k] @@ UpperSeq[k] :> LowerSeq[k]]
CaseFold == OtherCase[1] @@ OtherCase[2] @@ OtherCase[3] @@ OtherCase[4] @@ OtherCase[5]
  @@ OtherCase[6] @@ OtherCase[7] @@ OtherCase[8] @@ OtherCase[9] @@ OtherCase[10]
  @@ OtherCase[11] @@ OtherCase[12] @@ OtherCase[13] @@ OtherCase[14] @@ OtherCase[15]
  @@ OtherCase[16] @@ OtherCase[17] @@ OtherCase[18] @@ OtherCase[19] @@ OtherCase[20]
  @@ OtherCase[21] @@ OtherCase[22] @@ OtherCase[23] @@ OtherCase[24] @@ OtherCase[25]
  @@ OtherCase[26]

\* ---------------------------------------------------------------------
\* Regular expressions (the subset the pattern catalog uses) as syntax
\* trees.  Backtracking is modelled by its outcome: for an expression and
\* a start position the matcher computes the end positions the
\* backtracking search of ECMAScript would try, in the order it would try
\* them (alternatives left to right, repetitions longest first); the match
\* is the first of them.
\* ---------------------------------------------------------------------
Cls(set)        == [op |-> "cls", set |-> set, neg |-> FALSE]
NotCls(set)     == [op |-> "cls", set |-> set, neg |-> TRUE]
Lit(str)        == [op |-> "lit", str |-> str]
Cat(parts)      == [op |-> "cat", parts |-> parts]
Alt(alts)       == [op |-> "alt", alts |-> alts]
\* r{min,max}, greedy; max = -1 stands for no upper limit
Rep(r, min, max) == [op |-> "rep", r |-> r, min |-> min, max |-> max]
Opt(r)          == Rep(r, 0, 1)
Plus(r)         == Rep(r, 1, -1)
Star(r)         == Rep(r, 0, -1)
Look(r)         == [op |-> "look", r |-> r]
WB              == [op |-> "wb"]
BOL             == [op |-> "bol"]
EOL             == [op |-> "eol"]
Dot             == NotCls(LineTerm)
WS              == Cls(SpaceCh)

\* a RegExp object: its expression, its i and g flags and its lastIndex
Re(tree, ci) == [tree |-> tree, ci |-> ci, g |-> FALSE, lastIndex |-> 0]
\* the same expression with the g flag, as a new object
Global(re) == [re EXCEPT !.g = TRUE, !.lastIndex = 0]

\* with the i flag a character matches when it or its other case does
InCls(c, set, ci) == c \in set \/ (ci /\ c \in Lower \cup Upper /\ CaseFold[c] \in set)
SameChar(a, b, ci) == a = b \/ (ci /\ a \in Lower \cup Upper /\ CaseFold[a] = b)
IsWordAt(s, i) == i >= 1 /\ i <= Len(s) /\ s[i] \in WordCh

SetMin(S) == CHOOSE x \in S : \A y \in S : x <= y

\* a sequence given element by element, each element evaluated once
Once(seq) == seq \o <<>>

SetMax(S) == CHOOSE x \in S : \A y \in S : x >= y

\* where the position v occurs first in the sequences seqs: <<n, j>> for
\* the j-th place of the n-th sequence
FirstIn(seqs, v, n) == <<n, SetMin({j \in 1..Len(seqs[n]) : seqs[n][j] = v})>>
FirstPlace(seqs, v) ==
  FirstIn(seqs, v, SetMin({k \in 1..Len(seqs) : \E j \in 1..Len(seqs[k]) : seqs[k][j] = v}))
PlaceBefore(p, q) == p[1] < q[1] \/ (p[1] = q[1] /\ p[2] < q[2])
Places(seqs, vals) ==
  Once([v \in 1..SetMax(vals \cup {0}) |-> IF v \in vals THEN FirstPlace(seqs, v) ELSE <<0, 0>>])
\* the members of vals in the order of their places at
Ordered(vals, at) ==
  Once([k \in 1..Cardinality(vals) |->
          CHOOSE v \in vals : Cardinality({w \in vals : PlaceBefore(at[w], at[v])}) = k - 1])
MergeAll(seqs, vals) == Ordered(vals, Places(seqs, vals))
\* the concatenation of the sequences of positions seqs in which every
\* position is kept at its first occurrence only
Merge(seqs) ==
  IF Len(seqs) = 1 THEN seqs[1]
  ELSE MergeAll(seqs, UNION {{seqs[k][j] : j \in 1..Len(seqs[k])} : k \in 1..Len(seqs)})

\* the number of consecutive characters of s from position i that are
\* accepted by the class re, at most max of them when max >= 0
Limit(n, max) == IF max >= 0 /\ n > max THEN max ELSE n
ClassRun(re, s, i, ci, max) ==
  Limit(SetMin({j \in i..Len(s) : InCls(s[j], re.set, ci) = re.neg} \cup {Len(s) + 1}) - i, max)

\* r{min,max} after one more iteration of r
RepLess(re) == Rep(re.r, IF re.min > 0 THEN re.min - 1 ELSE 0,
                   IF re.max < 0 THEN -1 ELSE re.max - 1)

\* Ends(re, s, i, ci): the positions after the matches of re that start at
\* position i of s, in the order backtracking tries them.
\* CatEnds(parts, k, pos, s, ci): the same for the expressions parts[k..]
\* one after the other, started from each of the positions pos.
RECURSIVE Ends(_, _, _, _)
RECURSIVE CatEnds(_, _, _, _, _)
\* the positions from high down to low
Down(high, low) ==
  IF high < low THEN <<>> ELSE Once([n \in 1..(high - low + 1) |-> high - n + 1])
\* the first elements of those of the sequences seqs that are not empty
Firsts(seqs) == Once([n \in 1..Len(seqs) |-> seqs[n][1]])
\* the ends of r{min,max} at i, given the ends more of its first iteration
RepEnds(re, s, i, ci, more) ==
  Merge(Once([n \in 1..(Len(more) + 1) |->
                IF n <= Len(more) THEN Ends(RepLess(re), s, more[n], ci)
                ELSE IF re.min <= 0 THEN <<i>> ELSE <<>>]))
Ends(re, s, i, ci) ==
  CASE re.op = "cls" ->
         IF i <= Len(s) /\ (InCls(s[i], re.set, ci) # re.neg) THEN <<i + 1>> ELSE <<>>
    [] re.op = "lit" ->
         IF i + Len(re.str) - 1 <= Len(s)
            /\ (\A j \in 1..Len(re.str) : SameChar(s[i + j - 1], re.str[j], ci))
         THEN <<i + Len(re.str)>> ELSE <<>>
    [] re.op = "wb" -> IF IsWordAt(s, i - 1) # IsWordAt(s, i) THEN <<i>> ELSE <<>>
    [] re.op = "bol" -> IF i = 1 THEN <<i>> ELSE <<>>
    [] re.op = "eol" -> IF i = Len(s) + 1 THEN <<i>> ELSE <<>>
    [] re.op = "look" -> IF Ends(re.r, s, i, ci) # <<>> THEN <<i>> ELSE <<>>
    [] re.op = "cat" -> CatEnds(re.parts, 1, <<i>>, s, ci)
    [] re.op = "alt" ->
         Merge(Once([a \in 1..Len(re.alts) |-> Ends(re.alts[a], s, i, ci)]))
    [] re.op = "rep" /\ re.r.op = "cls" ->
         \* the longest run first, then one character less at a time
         Down(i + ClassRun(re.r, s, i, ci, re.max), i + re.min)
    [] re.op = "rep" /\ re.max = 0 -> <<i>>
    [] re.op = "rep" ->
         \* one more iteration of r, which must consume something once min
         \* is reached, and only then the end of the repetition
         RepEnds(re, s, i, ci,
                 SelectSeq(Ends(re.r, s, i, ci), LAMBDA e : e > i \/ re.min > 0))
    [] OTHER -> <<>>
CatEnds(parts, k, pos, s, ci) ==
  CASE pos = <<>> -> <<>>
    [] k > Len(parts) -> pos
    [] Len(pos) = 1 -> CatEnds(parts, k + 1, Ends(parts[k], s, pos[1], ci), s, ci)
    [] parts[k].op \in {"cls", "lit", "wb", "bol", "eol", "look"} ->
         \* at most one end for each start, and different ends for different
         \* starts: the starts that match, each moved to its end
         CatEnds(parts, k + 1,
                 Firsts(SelectSeq(Once([n \in 1..Len(pos) |-> Ends(parts[k], s, pos[n], ci)]),
                                  LAMBDA e : e # <<>>)), s, ci)
    [] OTHER -> CatEnds(parts, k + 1,
                        Merge(Once([n \in 1..Len(pos) |-> Ends(parts[k], s, pos[n], ci)])),
                        s, ci)

\* the position after the match of re that starts at position i, or 0
First(pos) == IF pos = <<>> THEN 0 ELSE pos[1]
MatchAt(re, s, i) == First(Ends(re.tree, s, i, re.ci))

\* the positions from i on at which a match of re can start at all: an
\* expression that begins with ^ matches at position 1 only, and one that
\* begins with \b at word boundaries only
StartsBy(first, s, i) ==
  CASE first.op = "bol" -> {j \in {1} : i <= j}
    [] first.op = "wb" -> {j \in i..(Len(s) + 1) : IsWordAt(s, j - 1) # IsWordAt(s, j)}
    [] OTHER -> i..(Len(s) + 1)
Starts(re, s, i) ==
  StartsBy(IF re.tree.op = "cat" THEN re.tree.parts[1] ELSE re.tree, s, i)

\* RegExp.prototype.exec: the leftmost match starting at or after position
\* i, as <<from, to>> (to exclusive), or <<0, 0>> when there is none
LeftMost(matches) ==
  IF matches = {} THEN <<0, 0>>
  ELSE CHOOSE m \in matches : \A n \in matches : m[1] <= n[1]
ExecFrom(re, s, i) ==
  LeftMost({m \in {<<j, MatchAt(re, s, j)>> : j \in Starts(re, s, i)} : m[2] # 0})

\* RegExp.prototype.test: with the g flag the search starts at lastIndex
Test(re, s) ==
  \E j \in Starts(re, s, IF re.g THEN re.lastIndex + 1 ELSE 1) : MatchAt(re, s, j) # 0
\* the object after test: with the g flag lastIndex is the end of the
\* match, or 0 when there was none
TestedFrom(re, m) ==
  IF re.g THEN [re EXCEPT !.lastIndex = IF m[1] = 0 THEN 0 ELSE m[2] - 1] ELSE re
Tested(re, s) == TestedFrom(re, ExecFrom(re, s, IF re.g THEN re.lastIndex + 1 ELSE 1))

\* String.prototype.match without the g flag: match[0], or <<>> for null
\* (no catalog pattern matches the empty string)
Matched(s, m) == IF m[1] = 0 THEN <<>> ELSE SubSeq(s, m[1], m[2] - 1)
MatchText(re, s) == Matched(s, ExecFrom(re, s, 1))

\* String.prototype.replace with the g flag: every non-overlapping match,
\* found left to right in the original string, becomes repl; after an
\* empty match the search resumes one character further.  done is the
\* output produced for s[1..i-1].
RECURSIVE ReplaceFrom(_, _, _, _, _)
\* m is the match found from position i on
ReplaceMatch(re, s, i, repl, done, m) ==
  CASE m[1] = 0 -> done \o SubSeq(s, i, Len(s))
    [] m[2] = m[1] /\ m[1] > Len(s) -> done \o SubSeq(s, i, m[1] - 1) \o repl
    [] m[2] = m[1] ->
         ReplaceFrom(re, s, m[1] + 1, repl,
                     done \o SubSeq(s, i, m[1] - 1) \o repl \o <<s[m[1]]>>)
    [] OTHER -> ReplaceFrom(re, s, m[2], repl, done \o SubSeq(s, i, m[1] - 1) \o repl)
ReplaceFrom(re, s, i, repl, done) ==
  IF i > Len(s) + 1 THEN done
  ELSE ReplaceMatch(re, s, i, repl, done, ExecFrom(re, s, i))

ReplaceAll(re, s, repl) == ReplaceFrom(re, s, 1, repl, <<>>)

\* String.prototype.replace without the g flag: the first match only
ReplaceMatched(s, repl, m) ==
  IF m[1] = 0 THEN s ELSE SubSeq(s, 1, m[1] - 1) \o repl \o SubSeq(s, m[2], Len(s))
ReplaceFirst(re, s, repl) == ReplaceMatched(s, repl, ExecFrom(re, s, 1))

\* ---------------------------------------------------------------------
\* Pattern catalog
\* ---------------------------------------------------------------------
DEFAULT_REPLACEMENT == <<"[","R","E","D","A","C","T","E","D","]">>

\* ^(alternatives)$ with the i flag
KeyRe(alts) == Re(Cat(<<BOL, Alt(alts), EOL>>), TRUE)
\* a[_-]?b
Sep(a, b) == Cat(<<Lit(a), Opt(Cls({"_", "-"})), Lit(b)>>)

SENSITIVE_KEY_PATTERNS == <<
  KeyRe(<<Sep(<<"a","p","i">>, <<"k","e","y">>), Lit(<<"a","p","i","k","e","y">>)>>),
  KeyRe(<<Sep(<<"a","u","t","h">>, <<"t","o","k","e","n">>), Lit(<<"a","u","t","h","t","o","k","e","n">>)>>),
  KeyRe(<<Sep(<<"a","c","c","e","s","s">>, <<"t","o","k","e","n">>), Lit(<<"a","c","c","e","s","s","t","o","k","e","n">>)>>),
  KeyRe(<<Sep(<<"r","e","f","r","e","s","h">>, <<"t","o","k","e","n">>), Lit(<<"r","e","f","r","e","s","h","t","o","k","e","n">>)>>),
  KeyRe(<<Sep(<<"b","e","a","r","e","r">>, <<"t","o","k","e","n">>), Lit(<<"b","e","a","r","e","r","t","o","k","e","n">>)>>),
  KeyRe(<<Lit(<<"s","e","c","r","e","t">>), Sep(<<"s","e","c","r","e","t">>, <<"k","e","y">>), Lit(<<"s","e","c","r","e","t","k","e","y">>)>>),
  KeyRe(<<Lit(<<"p","a","s","s","w","o","r","d">>), Lit(<<"p","a","s","s","w","d">>), Lit(<<"p","w","d">>)>>),
  KeyRe(<<Lit(<<"t","o","k","e","n">>)>>),
  KeyRe(<<Lit(<<"c","t","0">>)>>),
  KeyRe(<<Sep(<<"p","r","i","v","a","t","e">>, <<"k","e","y">>), Lit(<<"p","r","i","v","a","t","e","k","e","y">>)>>),
  KeyRe(<<Sep(<<"s","e","s","s","i","o","n">>, <<"i","d">>), Lit(<<"s","e","s","s","i","o","n","i","d">>)>>),
  KeyRe(<<Sep(<<"s","e","s","s","i","o","n">>, <<"t","o","k","e","n">>), Lit(<<"s","e","s","s","i","o","n","t","o","k","e","n">>)>>),
  KeyRe(<<Lit(<<"c","o","o","k","i","e">>), Lit(<<"c","o","o","k","i","e","s">>)>>),
  KeyRe(<<Lit(<<"a","u","t","h","o","r","i","z","a","t","i","o","n">>)>>),
  KeyRe(<<Lit(<<"c","r","e","d","e","n","t","i","a","l">>), Lit(<<"c","r","e","d","e","n","t","i","a","l","s">>)>>),
  KeyRe(<<Sep(<<"c","l","i","e","n","t">>, <<"s","e","c","r","e","t">>), Lit(<<"c","l","i","e","n","t","s","e","c","r","e","t">>)>>),
  KeyRe(<<Sep(<<"s","i","g","n","i","n","g">>, <<"k","e","y">>), Lit(<<"s","i","g","n","i","n","g","k","e","y">>)>>),
  KeyRe(<<Sep(<<"e","n","c","r","y","p","t","i","o","n">>, <<"k","e","y">>), Lit(<<"e","n","c","r","y","p","t","i","o","n","k","e","y">>)>> )
>>

PemDashes == <<"-","-","-","-","-">>
\* -----BEGIN\s+<words separated by \s+>-----
Pem(words) == Cat(<<Lit(PemDashes \o <<"B","E","G","I","N">>), Plus(WS)>> \o words \o <<Lit(<<"K","E","Y">> \o PemDashes)>>)
PemWord(w) == Cat(<<Lit(w), Plus(WS)>>)
\* [A-Za-z0-9\-_]
UrlSafe == Cls(Alnum \cup {"-", "_"})

SENSITIVE_VALUE_PATTERNS == <<
  \* /\bBearer\s+[A-Za-z0-9\-_\.]{20,}\b/i
  Re(Cat(<<WB, Lit(<<"B","e","a","r","e","r">>), Plus(WS),
           Rep(Cls(Alnum \cup {"-", "_", "."}), 20, -1), WB>>), TRUE),
  \* /\bAKIA[0-9A-Z]{16}\b/
  Re(Cat(<<WB, Lit(<<"A","K","I","A">>), Rep(Cls(Digit \cup Upper), 16, 16), WB>>), FALSE),
  \* /\b[A-Za-z0-9\/+=]{40}\b/
  Re(Cat(<<WB, Rep(Cls(Alnum \cup {"/", "+", "="}), 40, 40), WB>>), FALSE),
  \* /\b(ghp|gho|ghu|ghs|ghr)_[A-Za-z0-9]{36,}\b/
  Re(Cat(<<WB, Alt(<<Lit(<<"g","h","p">>), Lit(<<"g","h","o">>), Lit(<<"g","h","u">>), Lit(<<"g","h","s">>), Lit(<<"g","h","r">>)>>),
           Lit(<<"_">>), Rep(Cls(Alnum), 36, -1), WB>>), FALSE),
  \* /\bxox[baprs]-[A-Za-z0-9\-]{10,}\b/
  Re(Cat(<<WB, Lit(<<"x","o","x">>), Cls({"b", "a", "p", "r", "s"}), Lit(<<"-">>),
           Rep(Cls(Alnum \cup {"-"}), 10, -1), WB>>), FALSE),
  \* /\b(?=.*[a-z])(?=.*[A-Z])(?=.*\d)[A-Za-z0-9]{32,}\b/
  Re(Cat(<<WB, Look(Cat(<<Star(Dot), Cls(Lower)>>)), Look(Cat(<<Star(Dot), Cls(Upper)>>)),
           Look(Cat(<<Star(Dot), Cls(Digit)>>)), Rep(Cls(Alnum), 32, -1), WB>>), FALSE),
  \* /\b[a-fA-F0-9]{64,}\b/
  Re(Cat(<<WB, Rep(Cls({"a","b","c","d","e","f","A","B","C","D","E","F"} \cup Digit), 64, -1), WB>>), FALSE),
  \* /-----BEGIN\s+(RSA\s+)?PRIVATE\s+KEY-----/
  Re(Pem(<<Opt(PemWord(<<"R","S","A">>)), PemWord(<<"P","R","I","V","A","T","E">>)>>), FALSE),
  \* /-----BEGIN\s+EC\s+PRIVATE\s+KEY-----/
  Re(Pem(<<PemWord(<<"E","C">>), PemWord(<<"P","R","I","V","A","T","E">>)>>), FALSE),
  \* /-----BEGIN\s+OPENSSH\s+PRIVATE\s+KEY-----/
  Re(Pem(<<PemWord(<<"O","P","E","N","S","S","H">>), PemWord(<<"P","R","I","V","A","T","E">>)>>), FALSE),
  \* /\beyJ[A-Za-z0-9\-_]+\.eyJ[A-Za-z0-9\-_]+\.[A-Za-z0-9\-_]+\b/
  Re(Cat(<<WB, Lit(<<"e","y","J">>), Plus(UrlSafe), Lit(<<".">>), Lit(<<"e","y","J">>), Plus(UrlSafe),
           Lit(<<".">>), Plus(UrlSafe), WB>>), FALSE),
  \* /\bBasic\s+[A-Za-z0-9+\/=]{20,}\b/i
  Re(Cat(<<WB, Lit(<<"B","a","s","i","c">>), Plus(WS), Rep(Cls(Alnum \cup {"+", "/", "="}), 20, -1), WB>>), TRUE),
  \* /\b(sk|pk)_(live|test)_[A-Za-z0-9]{24,}\b/
  Re(Cat(<<WB, Alt(<<Lit(<<"s","k">>), Lit(<<"p","k">>)>>), Lit(<<"_">>),
           Alt(<<Lit(<<"l","i","v","e">>), Lit(<<"t","e","s","t">>)>>), Lit(<<"_">>), Rep(Cls(Alnum), 24, -1), WB>>), FALSE),
  \* /\bSG\.[A-Za-z0-9\-_]{22,}\.[A-Za-z0-9\-_]{22,}\b/
  Re(Cat(<<WB, Lit(<<"S","G",".">>), Rep(UrlSafe, 22, -1), Lit(<<".">>), Rep(UrlSafe, 22, -1), WB>>), FALSE),
  \* /\b(password|passwd|pwd|token|api[_-]?key|secret|auth[_-]?token|access[_-]?token)
  \*    \s*[=:]\s*["']?[^\s"',;]{4,}["']?/i
  Re(Cat(<<WB, Alt(<<Lit(<<"p","a","s","s","w","o","r","d">>), Lit(<<"p","a","s","s","w","d">>), Lit(<<"p","w","d">>), Lit(<<"t","o","k","e","n">>),
                     Sep(<<"a","p","i">>, <<"k","e","y">>), Lit(<<"s","e","c","r","e","t">>),
                     Sep(<<"a","u","t","h">>, <<"t","o","k","e","n">>), Sep(<<"a","c","c","e","s","s">>, <<"t","o","k","e","n">>)>>),
           Star(WS), Cls({"=", ":"}), Star(WS), Opt(Cls({"\"", "'"})),
           Rep(NotCls(SpaceCh \cup {"\"", "'", ",", ";"}), 4, -1), Opt(Cls({"\"", "'"}))>>), TRUE)
>>

\* ---------------------------------------------------------------------
\* Redaction engine
\* ---------------------------------------------------------------------
AnyTest(patterns, key) == \E k \in 1..Len(patterns) : Test(patterns[k], key)
isSensitiveKey(key, extraPatterns) == AnyTest(SENSITIVE_KEY_PATTERNS \o extraPatterns, key)
\* the pattern objects after allPatterns.some((p) => p.test(key)): some
\* stops at the first pattern whose test succeeds
TestedUpTo(patterns, key, stop) ==
  Once([k \in 1..Len(patterns) |->
          IF k <= stop THEN Tested(patterns[k], key) ELSE patterns[k]])
AfterSome(patterns, key) ==
  TestedUpTo(patterns, key,
             SetMin({k \in 1..Len(patterns) : Test(patterns[k], key)} \cup {Len(patterns)}))
\* the caller's pattern objects after isSensitiveKey(key, extraPatterns)
AfterIsSensitiveKey(key, extraPatterns) ==
  SubSeq(AfterSome(SENSITIVE_KEY_PATTERNS \o extraPatterns, key),
         Len(SENSITIVE_KEY_PATTERNS) + 1, Len(SENSITIVE_KEY_PATTERNS) + Len(extraPatterns))

\* the truncated preview of one matched fragment
Preview(m) == IF Len(m) > 20 THEN SubSeq(m, 1, 20) \o <<".", ".", ".">> ELSE m
Previews(found) == Once([k \in 1..Len(found) |-> Preview(found[k])])
\* for each pattern in order, its first match in value, if it has one
FirstMatches(patterns, value) ==
  SelectSeq(Once([k \in 1..Len(patterns) |-> MatchText(patterns[k], value)]),
            LAMBDA m : m # <<>>)

\* for each pattern in order, the preview of its first match, if it has one
findSensitivePatterns(value, extraPatterns) ==
  Previews(FirstMatches(SENSITIVE_VALUE_PATTERNS \o extraPatterns, value))
\* the caller's pattern objects after findSensitivePatterns: value.match
\* with the g flag starts at 0 and leaves lastIndex at 0
AfterFindSensitivePatterns(extraPatterns) ==
  Once([k \in 1..Len(extraPatterns) |->
          IF extraPatterns[k].g THEN [extraPatterns[k] EXCEPT !.lastIndex = 0]
          ELSE extraPatterns[k]])

\* the value after the patterns pats[k..] have been applied one after the
\* other, each as a global substitution over the result of the one before
RECURSIVE RedactFrom(_, _, _, _)
RedactFrom(pats, k, value, replacement) ==
  CASE k > Len(pats) -> value
    [] Len(value) >= 0 -> RedactFrom(pats, k + 1, ReplaceAll(pats[k], value, replacement), replacement)

redactValue(value, replacement, extraPatterns) ==
  RedactFrom(SENSITIVE_VALUE_PATTERNS \o extraPatterns, 1, value, replacement)

\* ---------------------------------------------------------------------
\* JSON-shaped values: [kind, val].  An object is the sequence of its
\* <<key, value>> entries in insertion order, keys unique.
\* ---------------------------------------------------------------------
JNull      == [kind |-> "null", val |-> <<>>]
JUndefined == [kind |-> "undefined", val |-> <<>>]
JStr(s)    == [kind |-> "string", val |-> s]
JNum(n)    == [kind |-> "number", val |-> <<n>>]
JBool(b)   == [kind |-> "boolean", val |-> <<b>>]
JArr(items) == [kind |-> "array", val |-> items]
JObj(entries) == [kind |-> "object", val |-> entries]

DigitSeq == <<"0","1","2","3","4","5","6","7","8","9">>
\* the decimal text of a natural number, as template literals print it
RECURSIVE NumToString(_)
NumToString(n) ==
  IF n < 10 THEN <<DigitSeq[n + 1]>>
  ELSE NumToString(n \div 10) \o <<DigitSeq[(n % 10) + 1]>>

\* the concatenation of a sequence of sequences: places are the pairs
\* <<n, m>> of the m-th element of the n-th sequence
InOrder(seqs, places) ==
  Once([k \in 1..Cardinality(places) |->
          CHOOSE e \in {seqs[p[1]][p[2]] : p \in {p \in places :
                           Cardinality({q \in places : PlaceBefore(q, p)}) = k - 1}} : TRUE])
Flatten(seqs) ==
  InOrder(seqs, UNION {{<<n, m>> : m \in 1..Len(seqs[n])} : n \in 1..Len(seqs)})

\* Array.prototype.join
Join(strs, sep) ==
  IF strs = <<>> THEN <<>>
  ELSE Flatten([n \in 1..(2 * Len(strs) - 1) |-> IF n % 2 = 1 THEN strs[(n + 1) \div 2] ELSE sep])

\* RedactOptions with its defaults
RedactOptions(mode) ==
  [mode |-> mode, extraKeyPatterns |-> <<>>, extraValuePatterns |-> <<>>,
   replacement |-> DEFAULT_REPLACEMENT]

\* processValue returns the processed value together with the entries it
\* pushed on detectedSecrets, in the order it pushed them
RECURSIVE processValue(_, _, _)
Result(out, det) == [out |-> out, det |-> det]
\* the string branch, patterns being what findSensitivePatterns found
processString(value, keyPath, opts, patterns) ==
  CASE patterns = <<>> -> Result(value, <<>>)
    [] opts.mode = "strict" ->
         Result(value, <<keyPath \o <<":", " ">> \o Join(patterns, <<",", " ">>)>>)
    [] OTHER ->
         Result(JStr(redactValue(value.val, opts.replacement, opts.extraValuePatterns)), <<>>)
\* an iteration that does not look at the key
processUnkeyed(key, v, currentPath, opts) == processValue(v, currentPath, opts)
\* an iteration for which everything under a sensitive key is sensitive
processInherited(key, v, currentPath, opts) ==
  CASE ~(v.kind \in {"string", "array", "object"} /\ v.val # <<>>
         /\ isSensitiveKey(key, opts.extraKeyPatterns)) ->
         processValue(v, currentPath, opts)
    [] opts.mode = "strict" -> Result(v, <<currentPath \o <<":"," ","s","e","n","s","i","t","i","v","e"," ","k","e","y"," ","n","a","m","e">>>>)
    [] OTHER -> Result(JStr(opts.replacement), <<>>)
\* one iteration of the loop over Object.entries(value)
processEntry(key, v, currentPath, opts) ==
  CASE ~(v.kind = "string" /\ Len(v.val) > 0 /\ isSensitiveKey(key, opts.extraKeyPatterns)) ->
         processValue(v, currentPath, opts)
    [] opts.mode = "strict" -> Result(v, <<currentPath \o <<":"," ","s","e","n","s","i","t","i","v","e"," ","k","e","y"," ","n","a","m","e">>>>)
    [] OTHER -> Result(JStr(opts.replacement), <<>>)
\* the array and the object put together from the results r of their members
ArrayResult(r) ==
  Result(JArr([n \in 1..Len(r) |-> r[n].out]), Flatten([n \in 1..Len(r) |-> r[n].det]))
ObjectResult(value, r) ==
  Result(JObj([n \in 1..Len(r) |-> <<value.val[n][1], r[n].out>>]),
         Flatten([n \in 1..Len(r) |-> r[n].det]))
processValue(value, keyPath, opts) ==
  CASE value.kind = "string" ->
         processString(value, keyPath, opts,
                       findSensitivePatterns(value.val, opts.extraValuePatterns))
    [] value.kind = "array" ->
         \* value.map((item, i) => processValue(item, `${keyPath}[${i}]`))
         ArrayResult(Once([n \in 1..Len(value.val) |->
           processValue(value.val[n],
                        keyPath \o <<"[">> \o NumToString(n - 1) \o <<"]">>, opts)]))
    [] value.kind = "object" ->
         \* for (const [key, val] of Object.entries(value)) ...
         ObjectResult(value, Once([n \in 1..Len(value.val) |->
           processEntry(value.val[n][1], value.val[n][2],
                        IF keyPath # <<>> THEN keyPath \o <<".">> \o value.val[n][1]
                        ELSE value.val[n][1], opts)]))
    [] OTHER -> Result(value, <<>>)

\* redactObject: threw tells whether RedactionError was raised, matches is
\* the error's match list, value the returned structure
\* a strict mode that reports its first detection only
RedactedFirst(opts, processed) ==
  IF opts.mode = "strict" /\ Len(processed.det) > 0
  THEN [threw |-> TRUE, value |-> JUndefined, matches |-> <<processed.det[1]>>]
  ELSE [threw |-> FALSE, value |-> processed.out, matches |-> <<>>]
Redacted(opts, processed) ==
  IF opts.mode = "strict" /\ Len(processed.det) > 0
  THEN [threw |-> TRUE, value |-> JUndefined, matches |-> processed.det]
  ELSE [threw |-> FALSE, value |-> processed.out, matches |-> <<>>]
redactObject(obj, opts) == Redacted(opts, processValue(obj, <<>>, opts))

\* a check that never finds anything
NoSecrets(obj) == FALSE
containsSecrets(obj) == redactObject(obj, RedactOptions("strict")).threw

\* ---------------------------------------------------------------------
\* Record schema
\* ---------------------------------------------------------------------
Field(key, value) == <<key, value>>
Has(obj, key) == \E n \in 1..Len(obj.val) : obj.val[n][1] = key
\* obj[key], undefined when the object has no such member
Get(obj, key) ==
  IF obj.kind = "object" /\ Has(obj, key)
  THEN obj.val[CHOOSE n \in 1..Len(obj.val) : obj.val[n][1] = key][2]
  ELSE JUndefined

ACTION_TYPES == {<<"f","i","l","e","_","r","e","a","d">>, <<"f","i","l","e","_","w","r","i","t","e">>, <<"f","i","l","e","_","e","d","i","t">>, <<"b","r","o","w","s","e","r">>,
                 <<"a","p","i","_","c","a","l","l">>, <<"e","x","e","c">>, <<"m","e","s","s","a","g","e","_","s","e","n","d">>, <<"c","o","n","f","i","g","_","c","h","a","n","g","e">>, <<"o","t","h","e","r">>}

\* z.string().datetime(): ^\d{4}-\d{2}-\d{2}T\d{2}:\d{2}:\d{2}(\.\d+)?Z$
DatetimeRe ==
  Re(Cat(<<BOL, Rep(Cls(Digit), 4, 4), Lit(<<"-">>), Rep(Cls(Digit), 2, 2), Lit(<<"-">>),
           Rep(Cls(Digit), 2, 2), Lit(<<"T">>), Rep(Cls(Digit), 2, 2), Lit(<<":">>),
           Rep(Cls(Digit), 2, 2), Lit(<<":">>), Rep(Cls(Digit), 2, 2),
           Opt(Cat(<<Lit(<<".">>), Plus(Cls(Digit))>>)), Lit(<<"Z">>), EOL>>), FALSE)
IsDatetime(v) == v.kind = "string" /\ Test(DatetimeRe, v.val)

\* z.string().optional()
IsOptionalString(v) == v.kind \in {"undefined", "string"}
\* z.array(z.string())
IsStringArray(v) == v.kind = "array" /\ \A n \in 1..Len(v.val) : v.val[n].kind = "string"
\* z.array(z.string()).default([])
IsDefaultedList(v) == v.kind = "undefined" \/ IsStringArray(v)
Defaulted(v) == IF v.kind = "undefined" THEN JArr(<<>>) ELSE v
\* an optional member of the parsed output: there when the input object
\* has the key, even with the value undefined
Optional(obj, key) == IF Has(obj, key) THEN <<Field(key, Get(obj, key))>> ELSE <<>>

\* each schema is a pair: Accepts tells whether parse succeeds, Parsed is
\* the value parse returns (known members in schema order, defaults
\* filled in, unknown members dropped)
ContextAccepts(v) ==
  /\ v.kind = "object"
  /\ IsOptionalString(Get(v, <<"c","h","a","n","n","e","l">>))
  /\ IsOptionalString(Get(v, <<"s","e","s","s","i","o","n">>))
  /\ IsOptionalString(Get(v, <<"r","e","q","u","e","s","t">>))
ContextParsed(v) ==
  JObj(Optional(v, <<"c","h","a","n","n","e","l">>) \o Optional(v, <<"s","e","s","s","i","o","n">>) \o Optional(v, <<"r","e","q","u","e","s","t">>))

ActionAccepts(v) ==
  /\ v.kind = "object"
  /\ Get(v, <<"t","y","p","e">>).kind = "string" /\ Get(v, <<"t","y","p","e">>).val \in ACTION_TYPES
  /\ Get(v, <<"s","u","m","m","a","r","y">>).kind = "string" /\ Len(Get(v, <<"s","u","m","m","a","r","y">>).val) >= 1
  /\ IsDefaultedList(Get(v, <<"a","r","t","i","f","a","c","t","s">>))
ActionParsed(v) ==
  JObj(<<Field(<<"t","y","p","e">>, Get(v, <<"t","y","p","e">>)), Field(<<"s","u","m","m","a","r","y">>, Get(v, <<"s","u","m","m","a","r","y">>)),
         Field(<<"a","r","t","i","f","a","c","t","s">>, Defaulted(Get(v, <<"a","r","t","i","f","a","c","t","s">>)))>>)

VerificationAccepts(v) ==
  /\ v.kind = "object"
  /\ IsDefaultedList(Get(v, <<"s","u","g","g","e","s","t","e","d">>))
  /\ IsDefaultedList(Get(v, <<"o","b","s","e","r","v","e","d">>))
VerificationParsed(v) ==
  JObj(<<Field(<<"s","u","g","g","e","s","t","e","d">>, Defaulted(Get(v, <<"s","u","g","g","e","s","t","e","d">>))),
         Field(<<"o","b","s","e","r","v","e","d">>, Defaulted(Get(v, <<"o","b","s","e","r","v","e","d">>)))>>)

AuditEntryAccepts(v) ==
  /\ v.kind = "object"
  /\ Get(v, <<"i","d">>).kind = "string" /\ Len(Get(v, <<"i","d">>).val) >= 1
  /\ IsDatetime(Get(v, <<"t","s">>))
  /\ Get(v, <<"c","o","n","t","e","x","t">>).kind = "undefined" \/ ContextAccepts(Get(v, <<"c","o","n","t","e","x","t">>))
  /\ ActionAccepts(Get(v, <<"a","c","t","i","o","n">>))
  /\ IsDefaultedList(Get(v, <<"w","h","a","t","_","i","_","d","i","d">>))
  /\ IsDefaultedList(Get(v, <<"a","s","s","u","m","p","t","i","o","n","s">>))
  /\ IsDefaultedList(Get(v, <<"u","n","c","e","r","t","a","i","n","t","i","e","s">>))
  /\ Get(v, <<"v","e","r","i","f","i","c","a","t","i","o","n">>).kind = "undefined" \/ VerificationAccepts(Get(v, <<"v","e","r","i","f","i","c","a","t","i","o","n">>))
\* a parse that returns its input as it is
Unparsed(v) == v
AuditEntryParsed(v) ==
  JObj(<<Field(<<"i","d">>, Get(v, <<"i","d">>)), Field(<<"t","s">>, Get(v, <<"t","s">>))>>
       \o (IF Get(v, <<"c","o","n","t","e","x","t">>).kind = "undefined" THEN <<>>
           ELSE <<Field(<<"c","o","n","t","e","x","t">>, ContextParsed(Get(v, <<"c","o","n","t","e","x","t">>)))>>)
       \o <<Field(<<"a","c","t","i","o","n">>, ActionParsed(Get(v, <<"a","c","t","i","o","n">>))),
            Field(<<"w","h","a","t","_","i","_","d","i","d">>, Defaulted(Get(v, <<"w","h","a","t","_","i","_","d","i","d">>))),
            Field(<<"a","s","s","u","m","p","t","i","o","n","s">>, Defaulted(Get(v, <<"a","s","s","u","m","p","t","i","o","n","s">>))),
            Field(<<"u","n","c","e","r","t","a","i","n","t","i","e","s">>, Defaulted(Get(v, <<"u","n","c","e","r","t","a","i","n","t","i","e","s">>)))>>
       \o (IF Get(v, <<"v","e","r","i","f","i","c","a","t","i","o","n">>).kind = "undefined" THEN <<>>
           ELSE <<Field(<<"v","e","r","i","f","i","c","a","t","i","o","n">>, VerificationParsed(Get(v, <<"v","e","r","i","f","i","c","a","t","i","o","n">>)))>>))

\* ---------------------------------------------------------------------
\* Ledger store.  The file is a sequence of tokens: a newline, a blank
\* character, a piece of text that is no JSON, or the JSON text of a
\* value (kept as the value it denotes).
\* ---------------------------------------------------------------------
NL == [t |-> "nl", v |-> JNull]
SP == [t |-> "sp", v |-> JNull]
Garbage == [t |-> "text", v |-> JNull]
JsonText(value) == [t |-> "json", v |-> value]

\* an encoder that writes null for every undefined
RECURSIVE NullForUndefined(_)
NullForUndefined(value) ==
  CASE value.kind = "object" ->
         JObj(Once([n \in 1..Len(value.val) |->
                      Field(value.val[n][1], NullForUndefined(value.val[n][2]))]))
    [] value.kind = "array" ->
         JArr(Once([n \in 1..Len(value.val) |-> NullForUndefined(value.val[n])]))
    [] value.kind = "undefined" -> JNull
    [] OTHER -> value

\* JSON.stringify keeps what JSON can express: members whose value is
\* undefined are left out, undefined array items become null
RECURSIVE ToJson(_)
ToJson(value) ==
  CASE value.kind = "object" ->
         JObj(Once([n \in 1..Len(SelectSeq(value.val, LAMBDA e : e[2].kind # "undefined")) |->
                      Field(SelectSeq(value.val, LAMBDA e : e[2].kind # "undefined")[n][1],
                            ToJson(SelectSeq(value.val, LAMBDA e : e[2].kind # "undefined")[n][2]))]))
    [] value.kind = "array" ->
         JArr(Once([n \in 1..Len(value.val) |->
                      IF value.val[n].kind = "undefined" THEN JNull ELSE ToJson(value.val[n])]))
    [] OTHER -> value
stringify(value) == JsonText(ToJson(value))

\* an encoder that writes every character of a string as it is
RawChar(c) == <<c>>
\* JSON.stringify of a string, character by character: a quote, a
\* backslash and a control character are written as an escape of two
\* characters, so that the text holds no newline
EscapedChar(c) ==
  CASE c = "\"" -> <<"\\", "\"">>
    [] c = "\\" -> <<"\\", "\\">>
    [] c = "\n" -> <<"\\", "n">>
    [] c = "\r" -> <<"\\", "r">>
    [] c = "\t" -> <<"\\", "t">>
    [] c = "\f" -> <<"\\", "f">>
    [] OTHER -> <<c>>
RECURSIVE Escaped(_)
Escaped(s) == IF s = <<>> THEN <<>> ELSE EscapedChar(Head(s)) \o Escaped(Tail(s))
Quote(s) == <<"\"">> \o Escaped(s) \o <<"\"">>
\* the strings of a value: its string values and the keys of its objects
RECURSIVE Strings(_)
Strings(value) ==
  CASE value.kind = "string" -> {value.val}
    [] value.kind = "array" -> UNION {Strings(value.val[n]) : n \in 1..Len(value.val)}
    [] value.kind = "object" ->
         UNION {{value.val[n][1]} \cup Strings(value.val[n][2]) : n \in 1..Len(value.val)}
    [] OTHER -> {}

\* the n-th smallest member of a set of numbers
Nth(S, n) == CHOOSE x \in S : Cardinality({y \in S : y < x}) = n - 1

\* what readline hands out: the stretches between newlines; the last
\* stretch is a line even without a newline after it, unless it is empty.
\* breaks are the positions of the newlines, with the end of the content
\* added when it does not end in a newline.
LinesAt(content, breaks) ==
  Once([k \in 1..Cardinality(breaks) |->
          SubSeq(content, IF k = 1 THEN 1 ELSE Nth(breaks, k - 1) + 1, Nth(breaks, k) - 1)])
\* a reader that does not count the blank lines
SolidLines(content) ==
  SelectSeq(LinesAt(content, {i \in 1..Len(content) : content[i].t = "nl"}
                             \cup {i \in {Len(content) + 1} :
                                     content # <<>> /\ content[i - 1].t # "nl"}),
            LAMBDA line : \E i \in 1..Len(line) : line[i].t # "sp")
Lines(content) ==
  LinesAt(content, {i \in 1..Len(content) : content[i].t = "nl"}
                   \cup {i \in {Len(content) + 1} : content # <<>> /\ content[i - 1].t # "nl"})

\* String.prototype.trim
Between(line, solid) ==
  IF solid = {} THEN <<>> ELSE SubSeq(line, SetMin(solid), SetMax(solid))
trim(line) == Between(line, {i \in 1..Len(line) : line[i].t # "sp"})

\* safeJsonParse: the value of a text that is exactly one JSON text, null
\* for any other text
safeJsonParse(text) ==
  IF Len(text) = 1 /\ text[1].t = "json" THEN text[1].v ELSE JNull

\* String.prototype.slice with 0 <= start <= end
slice(s, start, end) == SubSeq(s, start + 1, IF end < Len(s) THEN end ELSE Len(s))
\* trimmed.slice(0, 100)
SliceLimit == 100

\* JsonlParseError
JsonlParseError(message, lineNumber, lineContent, cause) ==
  [message |-> message, lineNumber |-> lineNumber, lineContent |-> lineContent,
   cause |-> cause]
NoError == [message |-> <<>>, lineNumber |-> 0, lineContent |-> <<>>, cause |-> FALSE]

\* one turn of the loop of readEntries over the line numbered lineNumber:
\* does is "skip" for a blank line, "yield" with the entry, or "fault"
\* with the error
Turn(does, entry, error) == [does |-> does, entry |-> entry, error |-> error]
Fault(message, lineNumber, trimmed, cause) ==
  Turn("fault", JNull,
       JsonlParseError(message \o NumToString(lineNumber), lineNumber,
                       slice(trimmed, 0, SliceLimit), cause))
ReadTrimmed(trimmed, lineNumber) ==
  CASE trimmed = <<>> -> Turn("skip", JNull, NoError)
    [] safeJsonParse(trimmed) = JNull ->
         Fault(<<"I","n","v","a","l","i","d"," ","J","S","O","N"," ","o","n"," ","l","i","n","e"," ">>, lineNumber, trimmed, FALSE)
    [] AuditEntryAccepts(safeJsonParse(trimmed)) ->
         Turn("yield", AuditEntryParsed(safeJsonParse(trimmed)), NoError)
    [] OTHER -> Fault(<<"S","c","h","e","m","a"," ","v","a","l","i","d","a","t","i","o","n"," ","f","a","i","l","e","d"," ","o","n"," ","l","i","n","e"," ">>, lineNumber, trimmed, TRUE)
ReadLine(line, lineNumber) == ReadTrimmed(trim(line), lineNumber)

\* readEntries run to its end by a consumer that takes every entry:
\* yielded are the entries in the order they were yielded, warnings the
\* messages on console.error, thrown the error that ended the run (NoError
\* when it ended normally), lineNumber the last line the loop reached
Run(yielded, warnings, thrown, lineNumber) ==
  [yielded |-> yielded, warnings |-> warnings, thrown |-> thrown, lineNumber |-> lineNumber]
EntriesOf(turns) == Once([n \in 1..Len(turns) |-> turns[n].entry])
\* a reader that keeps its warnings to itself
NoWarnings(turns) == <<>>
WarningsOf(turns) ==
  Once([n \in 1..Len(turns) |-> <<"W","a","r","n","i","n","g",":"," ">> \o turns[n].error.message])
\* turn are the turns of the loop over all the lines, reached those the
\* loop gets to: all of them, or those up to the first fault
ReadReached(reached, skipInvalid) ==
  Run(EntriesOf(SelectSeq(reached, LAMBDA r : r.does = "yield")),
      IF skipInvalid THEN WarningsOf(SelectSeq(reached, LAMBDA r : r.does = "fault"))
      ELSE <<>>,
      IF ~skipInvalid /\ reached # <<>> /\ reached[Len(reached)].does = "fault"
      THEN reached[Len(reached)].error ELSE NoError,
      Len(reached))
\* a reader that goes on after a fault in either mode
ReadThrough(turn, skipInvalid) == ReadReached(turn, skipInvalid)
ReadTurns(turn, skipInvalid) ==
  ReadReached(SubSeq(turn, 1, SetMin({k \in 1..Len(turn) : ~skipInvalid /\ turn[k].does = "fault"}
                                     \cup {Len(turn)})), skipInvalid)
\* a reader that fails when there is no file
readOrFail(exists, content, skipInvalid) ==
  IF ~exists
  THEN Run(<<>>, <<>>, JsonlParseError(<<"E", "N", "O", "E", "N", "T">>, 0, <<>>, TRUE), 0)
  ELSE ReadTurns(Once([k \in 1..Len(Lines(content)) |-> ReadLine(Lines(content)[k], k)]),
                 skipInvalid)
readEntries(exists, content, skipInvalid) ==
  IF ~exists THEN Run(<<>>, <<>>, NoError, 0)
  ELSE ReadTurns(Once([k \in 1..Len(Lines(content)) |-> ReadLine(Lines(content)[k], k)]),
                 skipInvalid)

\* a writer that replaces the file by the new line, and one that puts the
\* new line first: neither is what appendEntry does
overwriteEntry(content, entry) == <<JsonText(entry), NL>>
prependEntry(content, entry) == <<JsonText(entry), NL>> \o content
\* a writer that validates, and leaves the file alone when the schema
\* rejects the value
appendValid(content, entry) ==
  IF AuditEntryAccepts(entry) THEN content \o <<JsonText(ToJson(entry)), NL>> ELSE content

\* appendEntry: the file content afterwards (the file is created when it
\* does not exist)
appendEntry(content, entry) == content \o <<stringify(entry), NL>>

\* Date.prototype.toISOString for the instant now seconds after
\* 2026-01-31T00:00:00.000Z
toISOString(now) ==
  <<"2","0","2","6","-","0","1","-","3","1","T","0","0",":","0","0",":">> \o (IF now < 10 THEN <<"0">> ELSE <<>>) \o NumToString(now) \o <<".","0","0","0","Z">>
\* new Date(ts) for a timestamp ts that toISOString can print
DateOf(ts) == CHOOSE n \in 0..59 : toISOString(n) = ts

\* Math.random() is given by the hexadecimal digits of its fraction, none
\* for 0 and the last one not 0.  Number.prototype.toString(16) prints 0
\* or 0.digits
toString16(fraction) == IF fraction = <<>> THEN <<"0">> ELSE <<"0", ".">> \o fraction
\* Math.random().toString(16).slice(2, 6)
RandomSuffix(fraction) == slice(toString16(fraction), 2, 6)

\* makeId; suffix stands for Math.random().toString(16).slice(2, 6)
makeId(now, suffix) ==
  LET iso == toISOString(now)
      compact == ReplaceFirst(Re(Cat(<<Lit(<<".">>), Plus(Dot), Lit(<<"Z">>), EOL>>), FALSE),
                              ReplaceAll(Re(Cls({"-", ":"}), FALSE), iso, <<>>), <<"Z">>)
  IN compact \o <<"-">> \o suffix

\* ---------------------------------------------------------------------
\* Command line
\* ---------------------------------------------------------------------
\* getRedactionConfig from the flags --no-redact and --strict
getRedactionConfig(noRedact, strict) ==
  [enabled |-> ~noRedact, mode |-> IF strict THEN "strict" ELSE "redact"]

\* one call of redactObject made by a command: the entry handed to it and
\* what came back
Scan(entry, result) == [of |-> entry, result |-> result]
\* applyRedaction: exit is 1 when the process exits with status 1, else
\* entry is the value returned; scanned are the calls of redactObject made
\* an applyRedaction that swallows the error and returns the entry
AppliedAnyway(entry, r) == [exit |-> 0, entry |-> entry, scanned |-> <<Scan(entry, r)>>]
Applied(entry, r) ==
  [exit |-> IF r.threw THEN 1 ELSE 0, entry |-> IF r.threw THEN JUndefined ELSE r.value,
   scanned |-> <<Scan(entry, r)>>]
applyRedaction(entry, config) ==
  IF ~config.enabled THEN [exit |-> 0, entry |-> entry, scanned |-> <<>>]
  ELSE Applied(entry, redactObject(entry, RedactOptions(config.mode)))

EmptyList == JArr(<<>>)
\* the object literal { type, summary, artifacts }
ActionOf(type, summary, artifacts) ==
  JObj(<<Field(<<"t","y","p","e">>, JStr(type)), Field(<<"s","u","m","m","a","r","y">>, JStr(summary)),
         Field(<<"a","r","t","i","f","a","c","t","s">>, artifacts)>>)

\* the outcome of a command: its exit status, the entries it built before
\* redaction, the calls of redactObject it made, and the values it handed
\* to appendEntry, in order
Outcome(exit, built, scanned, appended) ==
  [exit |-> exit, built |-> built, scanned |-> scanned, appended |-> appended]
Nothing(exit) == Outcome(exit, <<>>, <<>>, <<>>)

\* what a command does with the entry it built and validated
\* a command that appends the entry it built instead of the redacted one
FinishedRaw(entry, final) ==
  Outcome(final.exit, <<entry>>, final.scanned, IF final.exit # 0 THEN <<>> ELSE <<entry>>)
Finished(entry, final) ==
  Outcome(final.exit, <<entry>>, final.scanned,
          IF final.exit # 0 THEN <<>> ELSE <<final.entry>>)
Finish(entry, config) == Finished(entry, applyRedaction(entry, config))
\* AuditEntrySchema.parse(entry) in a command: a failure exits with status
\* 1, a success goes on with the parsed value
Validate(entry, config) ==
  IF ~AuditEntryAccepts(entry) THEN Nothing(1)
  ELSE Finish(AuditEntryParsed(entry), config)

\* handleAdd with --type and --summary
handleAdd(type, summary, config, now, suffix) ==
  Validate(JObj(<<Field(<<"i","d">>, JStr(makeId(now, suffix))),
                  Field(<<"t","s">>, JStr(toISOString(now))),
                  Field(<<"a","c","t","i","o","n">>, ActionOf(type, summary, EmptyList)),
                  Field(<<"w","h","a","t","_","i","_","d","i","d">>, EmptyList),
                  Field(<<"a","s","s","u","m","p","t","i","o","n","s">>, EmptyList),
                  Field(<<"u","n","c","e","r","t","a","i","n","t","i","e","s">>, EmptyList),
                  Field(<<"v","e","r","i","f","i","c","a","t","i","o","n">>,
                        JObj(<<Field(<<"s","u","g","g","e","s","t","e","d">>, EmptyList),
                               Field(<<"o","b","s","e","r","v","e","d">>, EmptyList)>>))>>), config)

\* data[key] = value
Put(obj, key, value) ==
  IF Has(obj, key)
  THEN JObj([n \in 1..Len(obj.val) |->
               IF obj.val[n][1] = key THEN Field(key, value) ELSE obj.val[n]] \o <<>>)
  ELSE JObj(obj.val \o <<Field(key, value)>>)
\* delete data[key]
Remove(obj, key) == JObj(SelectSeq(obj.val, LAMBDA e : e[1] # key))
\* !v
Falsy(v) ==
  \/ v.kind \in {"undefined", "null"}
  \/ v.kind = "string" /\ v.val = <<>>
  \/ v.kind = "number" /\ v.val = <<0>>
  \/ v.kind = "boolean" /\ v.val = <<FALSE>>
\* if (!data[key]) data[key] = value
OrElse(obj, key, value) == IF Falsy(Get(obj, key)) THEN Put(obj, key, value) ELSE obj
\* a type and a summary at the top level are wrapped in an action
WrapAction(data) ==
  IF ~Falsy(Get(data, <<"t","y","p","e">>)) /\ ~Falsy(Get(data, <<"s","u","m","m","a","r","y">>))
     /\ Falsy(Get(data, <<"a","c","t","i","o","n">>))
  THEN Remove(Remove(Remove(
         Put(data, <<"a","c","t","i","o","n">>,
             JObj(<<Field(<<"t","y","p","e">>, Get(data, <<"t","y","p","e">>)),
                    Field(<<"s","u","m","m","a","r","y">>, Get(data, <<"s","u","m","m","a","r","y">>)),
                    Field(<<"a","r","t","i","f","a","c","t","s">>,
                          IF Falsy(Get(data, <<"a","r","t","i","f","a","c","t","s">>)) THEN EmptyList
                          ELSE Get(data, <<"a","r","t","i","f","a","c","t","s">>))>>)),
         <<"t","y","p","e">>), <<"s","u","m","m","a","r","y">>), <<"a","r","t","i","f","a","c","t","s">>)
  ELSE data

\* handleAdd with --json: data is the parsed input, which keeps an id and
\* a ts of its own
handleAddJson(data, config, now, suffix) ==
  Validate(OrElse(OrElse(OrElse(
             WrapAction(OrElse(OrElse(data, <<"i","d">>, JStr(makeId(now, suffix))),
                               <<"t","s">>, JStr(toISOString(now)))),
             <<"w","h","a","t","_","i","_","d","i","d">>, EmptyList), <<"a","s","s","u","m","p","t","i","o","n","s">>, EmptyList),
           <<"u","n","c","e","r","t","a","i","n","t","i","e","s">>, EmptyList), config)

\* the entry literal of handleInteractiveAdd and handleQuickCapture
PlainEntry(type, summary, whatIDid, now, suffix) ==
  JObj(<<Field(<<"i","d">>, JStr(makeId(now, suffix))),
         Field(<<"t","s">>, JStr(toISOString(now))),
         Field(<<"a","c","t","i","o","n">>, ActionOf(type, summary, EmptyList)),
         Field(<<"w","h","a","t","_","i","_","d","i","d">>, whatIDid),
         Field(<<"a","s","s","u","m","p","t","i","o","n","s">>, EmptyList),
         Field(<<"u","n","c","e","r","t","a","i","n","t","i","e","s">>, EmptyList)>>)

\* handleInteractiveAdd: the answers to the prompts are type, summary and
\* whether the entry is to be saved
handleInteractiveAdd(type, summary, save, config, now, suffix) ==
  IF summary = <<>> \/ ~save THEN Nothing(0)
  ELSE Finish(AuditEntryParsed(PlainEntry(type, summary, EmptyList, now, suffix)), config)

\* String.prototype.trim on characters
trimChars(s) == Between(s, {i \in 1..Len(s) : s[i] \notin SpaceCh})

\* handleQuickCapture with the summary as its only argument
QuickCapture(summary, config, now, suffix) ==
  IF summary = <<>> THEN Nothing(1)
  ELSE Finish(AuditEntryParsed(PlainEntry(<<"o","t","h","e","r">>, summary, EmptyList, now, suffix)), config)
handleQuickCapture(summary, config, now, suffix) ==
  QuickCapture(trimChars(summary), config, now, suffix)

\* ---------------------------------------------------------------------
\* Import (src/adapters/clawdbot.ts).  The events of the model carry a
\* tool, a result, and optionally a timestamp and a request; they have no
\* arguments and no files.
\* ---------------------------------------------------------------------
\* ClawdbotToolCallSchema.parse succeeds
ToolCallAccepts(event) ==
  /\ event.kind = "object"
  /\ Get(event, <<"t","o","o","l">>).kind = "string" /\ Len(Get(event, <<"t","o","o","l">>).val) >= 1
  /\ Get(event, <<"r","e","s","u","l","t">>).kind = "string"
  /\ Get(event, <<"r","e","s","u","l","t">>).val \in {<<"s","u","c","c","e","s","s">>, <<"f","a","i","l","u","r","e">>}
  /\ Get(event, <<"t","i","m","e","s","t","a","m","p">>).kind = "undefined" \/ IsDatetime(Get(event, <<"t","i","m","e","s","t","a","m","p">>))
  /\ IsOptionalString(Get(event, <<"c","h","a","n","n","e","l">>))
  /\ IsOptionalString(Get(event, <<"s","e","s","s","i","o","n">>))
  /\ IsOptionalString(Get(event, <<"r","e","q","u","e","s","t">>))

\* TOOL_TYPE_MAP[toolName] ?? "other"
getActionType(toolName) ==
  CASE toolName \in {<<"R","e","a","d">>, <<"W","r","i","t","e">>} -> <<"f","i","l","e","_","w","r","i","t","e">>
    [] toolName = <<"E","d","i","t">> -> <<"f","i","l","e","_","e","d","i","t">>
    [] toolName \in {<<"e","x","e","c">>, <<"p","r","o","c","e","s","s">>} -> <<"e","x","e","c">>
    [] toolName = <<"b","r","o","w","s","e","r">> -> <<"b","r","o","w","s","e","r">>
    [] toolName \in {<<"w","e","b","_","s","e","a","r","c","h">>, <<"w","e","b","_","f","e","t","c","h">>, <<"i","m","a","g","e">>, <<"t","t","s">>} -> <<"a","p","i","_","c","a","l","l">>
    [] toolName = <<"m","e","s","s","a","g","e">> -> <<"m","e","s","s","a","g","e","_","s","e","n","d">>
    [] OTHER -> <<"o","t","h","e","r">>

\* generateSummary for the tools whose summary does not use the arguments
generateSummary(event) ==
  LET tool == Get(event, <<"t","o","o","l">>).val
      status == IF Get(event, <<"r","e","s","u","l","t">>).val = <<"s","u","c","c","e","s","s">> THEN <<>> ELSE <<" ","(","f","a","i","l","e","d",")">>
  IN CASE tool = <<"i","m","a","g","e">> -> <<"A","n","a","l","y","z","e"," ","i","m","a","g","e">> \o status
       [] tool = <<"t","t","s">> -> <<"T","e","x","t","-","t","o","-","s","p","e","e","c","h">> \o status
       [] OTHER -> tool \o status

\* generateWhatIDid, the default branch: `Invoked ${tool} tool`
generateWhatIDid(event) ==
  JArr(<<JStr(<<"I","n","v","o","k","e","d"," ">> \o Get(event, <<"t","o","o","l">>).val \o <<" ","t","o","o","l">>)>>)

\* transformToolCall for an event the schema accepts
transformToolCall(event, now, suffix) ==
  LET stamp == Get(event, <<"t","i","m","e","s","t","a","m","p">>)
      ts == IF Falsy(stamp) THEN toISOString(now) ELSE stamp.val
      failure == Get(event, <<"r","e","s","u","l","t">>).val = <<"f","a","i","l","u","r","e">>
      context == JObj(<<Field(<<"c","h","a","n","n","e","l">>, Get(event, <<"c","h","a","n","n","e","l">>)),
                        Field(<<"s","e","s","s","i","o","n">>, Get(event, <<"s","e","s","s","i","o","n">>)),
                        Field(<<"r","e","q","u","e","s","t">>, Get(event, <<"r","e","q","u","e","s","t">>))>>)
      empty == Falsy(Get(event, <<"c","h","a","n","n","e","l">>)) /\ Falsy(Get(event, <<"s","e","s","s","i","o","n">>))
               /\ Falsy(Get(event, <<"r","e","q","u","e","s","t">>))
      entry == JObj(<<Field(<<"i","d">>, JStr(makeId(DateOf(ts), suffix))), Field(<<"t","s">>, JStr(ts))>>
                    \o (IF empty THEN <<>> ELSE <<Field(<<"c","o","n","t","e","x","t">>, context)>>)
                    \o <<Field(<<"a","c","t","i","o","n">>,
                               ActionOf(getActionType(Get(event, <<"t","o","o","l">>).val),
                                        generateSummary(event), EmptyList)),
                         Field(<<"w","h","a","t","_","i","_","d","i","d">>, generateWhatIDid(event)),
                         Field(<<"a","s","s","u","m","p","t","i","o","n","s">>, EmptyList),
                         Field(<<"u","n","c","e","r","t","a","i","n","t","i","e","s">>,
                               IF failure
                               THEN JArr(<<JStr(<<"T","o","o","l"," ","c","a","l","l"," ","f","a","i","l","e","d"," ","-"," ","m","a","y"," ","n","e","e","d"," ","r","e","t","r","y">>)>>)
                               ELSE EmptyList),
                         Field(<<"v","e","r","i","f","i","c","a","t","i","o","n">>,
                               JObj(<<Field(<<"s","u","g","g","e","s","t","e","d">>, EmptyList),
                                      Field(<<"o","b","s","e","r","v","e","d">>,
                                            IF failure THEN EmptyList
                                            ELSE JArr(<<JStr(<<"T","o","o","l"," ","c","a","l","l"," ","c","o","m","p","l","e","t","e","d"," ","s","u","c","c","e","s","s","f","u","l","l","y">>)>>))>>))>>)
  IN AuditEntryParsed(entry)

\* parseClawdbotJsonl: the entries of the events that parse, in order
Transformed(good, now, suffix) ==
  Once([n \in 1..Len(good) |-> transformToolCall(good[n], now, suffix)])
parseClawdbotJsonl(events, now, suffix) ==
  Transformed(SelectSeq(events, ToolCallAccepts), now, suffix)

\* the loop of handleImport over the parsed entries; done[n] is what
\* redactObject made of entries[n]
NotRedacted(entry) == [threw |-> FALSE, value |-> entry, matches |-> <<>>]
ValuesOf(kept) == Once([n \in 1..Len(kept) |-> kept[n].value])
Imported(entries, config, dryRun, done) ==
  Outcome(0, entries,
          IF config.enabled THEN Once([n \in 1..Len(entries) |-> Scan(entries[n], done[n])])
          ELSE <<>>,
          IF dryRun THEN <<>> ELSE ValuesOf(SelectSeq(done, LAMBDA r : ~r.threw)))
Import(entries, config, dryRun) ==
  Imported(entries, config, dryRun,
           Once([n \in 1..Len(entries) |->
                   IF config.enabled THEN redactObject(entries[n], RedactOptions(config.mode))
                   ELSE NotRedacted(entries[n])]))
handleImport(events, config, dryRun, now, suffix) ==
  Import(parseClawdbotJsonl(events, now, suffix), config, dryRun)

\* loadAllEntries: the entries of a strict read, none when there is no
\* file; a fault of the read is thrown on to the command
loadAllEntries(exists, content) == readEntries(exists, content, FALSE)
\* what show leaves behind: its exit status and the entry it printed
Shown(exit, entry) == [exit |-> exit, entry |-> entry]
\* a lookup that takes the last of the entries at the places at
findLast(entries, at) ==
  IF at = {} THEN Shown(1, JUndefined) ELSE Shown(0, entries[SetMax(at)])
\* entries.find((x) => x.id === id), and exitWithError when it finds none
find(entries, at) ==
  IF at = {} THEN Shown(1, JUndefined) ELSE Shown(0, entries[SetMin(at)])
ShowLoaded(loaded, id) ==
  IF loaded.thrown # NoError THEN Shown(1, JUndefined)
  ELSE find(loaded.yielded,
            {n \in 1..Len(loaded.yielded) : Get(loaded.yielded[n], <<"i","d">>) = JStr(id)})
\* handleShow with id as its argument
handleShow(exists, content, id) ==
  IF id = <<>> \/ id[1] = "-" THEN Shown(1, JUndefined)
  ELSE ShowLoaded(loadAllEntries(exists, content), id)
\* ---------------------------------------------------------------------
\* State
\* ---------------------------------------------------------------------
VARIABLES
  exists,    \* whether the ledger file exists
  content,   \* the content of the ledger file
  now,       \* the system clock, in seconds
  ran,       \* the number of commands run so far
  last,      \* the latest operation on the ledger and its outcome
  reading,   \* the latest read: its mode, the content it read, its result
  written,   \* the values handed to appendEntry so far, in call order
  input,     \* redaction engine: the structure handed to it
  output,    \* redaction engine: the mode used and what it returned
  extra,     \* the caller's extra pattern objects, each with its lastIndex
  appenders  \* the processes inside appendEntry: how far each has come

vars == <<exists, content, now, ran, last, reading, written, input, output, extra, appenders>>

MaxAppends == 2
MaxClock == 1
MaxCommands == 2

\* an operation on the ledger with its outcome; existed and before are the
\* file as the operation found it
Operation(op, config, dryRun, outcome, existed, before) ==
  [op |-> op, config |-> config, dryRun |-> dryRun, exit |-> outcome.exit,
   built |-> outcome.built, scanned |-> outcome.scanned, appended |-> outcome.appended,
   existed |-> existed, before |-> before]
NoOperation ==
  Operation("none", getRedactionConfig(FALSE, FALSE), FALSE, Nothing(0), FALSE, <<>>)
Reading(mode, existed, of) ==
  [mode |-> mode, existed |-> existed, of |-> of,
   result |-> readEntries(existed, of, mode = "skip")]
NoReading ==
  [mode |-> "none", existed |-> FALSE, of |-> <<>>, result |-> Run(<<>>, <<>>, NoError, 0)]
\* a value handed to appendEntry, and the clock at that moment
Written(entry, at) == [entry |-> entry, at |-> at]
NoOutput == [mode |-> "none", threw |-> FALSE, value |-> JUndefined, matches |-> <<>>]

\* createValidEntry of the ledger tests
createValidEntry(id) ==
  JObj(<<Field(<<"i","d">>, JStr(id)), Field(<<"t","s">>, JStr(<<"2","0","2","6","-","0","1","-","3","1","T","0","0",":","0","0",":","0","0",".","0","0","0","Z">>)),
         Field(<<"a","c","t","i","o","n">>, ActionOf(<<"o","t","h","e","r">>, <<"t","e","s","t">>, EmptyList)),
         Field(<<"w","h","a","t","_","i","_","d","i","d">>, EmptyList), Field(<<"a","s","s","u","m","p","t","i","o","n","s">>, EmptyList),
         Field(<<"u","n","c","e","r","t","a","i","n","t","i","e","s">>, EmptyList)>>)
Entry1 == createValidEntry(<<"e","n","t","r","y","-","1">>)
Entry2 == createValidEntry(<<"e","n","t","r","y","-","2">>)
\* a record that relies on the defaults of the schema and carries a
\* member the schema does not know
BareEntry ==
  JObj(<<Field(<<"i","d">>, JStr(<<"b","a","r","e">>)), Field(<<"t","s">>, JStr(<<"2","0","2","6","-","0","1","-","3","1","T","0","0",":","0","0",":","0","0",".","0","0","0","Z">>)),
         Field(<<"a","c","t","i","o","n">>, JObj(<<Field(<<"t","y","p","e">>, JStr(<<"e","x","e","c">>)),
                                   Field(<<"s","u","m","m","a","r","y">>, JStr(<<"l","s">>))>>)),
         Field(<<"e","x","t","r","a">>, JNum(1))>>)

\* a record whose list is null, which the schema rejects
NullListEntry ==
  JObj(<<Field(<<"i","d">>, JStr(<<"n","u","l","l","s">>)), Field(<<"t","s">>, JStr(<<"2","0","2","6","-","0","1","-","3","1","T","0","0",":","0","0",":","0","0",".","0","0","0","Z">>)),
         Field(<<"a","c","t","i","o","n">>, ActionOf(<<"o","t","h","e","r">>, <<"t","e","s","t">>, EmptyList)),
         Field(<<"w","h","a","t","_","i","_","d","i","d">>, JNull)>>)

\* a second record with the id of Entry1, with a summary of two lines
Twin ==
  JObj(<<Field(<<"i","d">>, JStr(<<"e","n","t","r","y","-","1">>)), Field(<<"t","s">>, JStr(<<"2","0","2","6","-","0","1","-","3","1","T","0","0",":","0","0",":","0","0",".","0","0","0","Z">>)),
         Field(<<"a","c","t","i","o","n">>, ActionOf(<<"o","t","h","e","r">>, <<"t", "w", "o", "\n", "l", "i", "n", "e", "s">>,
                                     EmptyList)),
         Field(<<"w","h","a","t","_","i","_","d","i","d">>, EmptyList), Field(<<"a","s","s","u","m","p","t","i","o","n","s">>, EmptyList),
         Field(<<"u","n","c","e","r","t","a","i","n","t","i","e","s">>, EmptyList)>>)
\* a value that is no audit entry
InvalidEntry == JObj(<<Field(<<"b","a","d">>, JStr(<<"s","c","h","e","m","a">>))>>)

\* the ledger files a run may start from, as the tests write them
InitialFiles ==
  { <<>>,
    <<JsonText(Entry1), NL>>,
    <<JsonText(Entry1)>>,
    <<JsonText(Entry1), NL, NL, SP, SP, SP, NL, JsonText(Entry2)>>,
    <<Garbage, NL>>,
    <<JsonText(JObj(<<Field(<<"i","d">>, JStr(<<"t","e","s","t">>))>>)), NL>>,
    <<JsonText(Entry1), NL, Garbage, NL,
      JsonText(JObj(<<Field(<<"b","a","d">>, JStr(<<"s","c","h","e","m","a">>))>>)), NL, JsonText(Entry2)>>,
    <<SP, JsonText(BareEntry), SP, NL, JsonText(NullListEntry), NL, JsonText(Entry2), NL>>,
    <<NL, SP, NL, Garbage, NL, SP, SP, NL, JsonText(Entry2), NL, JsonText(InvalidEntry)>>,
    <<JsonText(Entry1), NL>> \o [k \in 1..(SliceLimit + 1) |-> Garbage] \o <<NL>> }

\* the entries the store is asked to append
Appendable == {Entry1, Entry2, Twin, InvalidEntry}

InitCommon ==
  /\ now = 0
  /\ ran = 0
  /\ last = NoOperation
  /\ reading = NoReading
  /\ written = <<>>
  /\ input = JUndefined
  /\ output = NoOutput
  /\ extra = <<>>
  /\ appenders = <<>>

\* the values handed to appendEntry one after the other
RECURSIVE AppendEach(_, _)
AppendEach(file, entries) ==
  IF entries = <<>> THEN file
  ELSE AppendEach(appendEntry(file, Head(entries)), Tail(entries))

\* ---------------------------------------------------------------------
\* The store on its own: appendEntry and readEntries over any file
\* ---------------------------------------------------------------------
Init ==
  /\ \/ exists = FALSE /\ content = <<>>
     \/ exists = TRUE /\ content \in InitialFiles
  /\ InitCommon

AppendEntry ==
  /\ Len(written) < MaxAppends
  /\ \E entry \in Appendable :
       /\ content' = appendEntry(content, entry)
       /\ exists' = TRUE
       /\ last' = Operation("append", getRedactionConfig(TRUE, FALSE), FALSE,
                            Outcome(0, <<entry>>, <<>>, <<entry>>), exists, content)
       /\ written' = Append(written, Written(entry, now))
  /\ UNCHANGED <<now, ran, reading, input, output, extra, appenders>>

ReadStrict ==
  /\ reading' = Reading("strict", exists, content)
  /\ UNCHANGED <<exists, content, now, ran, last, written, input, output, extra, appenders>>

ReadSkipInvalid ==
  /\ reading' = Reading("skip", exists, content)
  /\ UNCHANGED <<exists, content, now, ran, last, written, input, output, extra, appenders>>

Next == AppendEntry \/ ReadStrict \/ ReadSkipInvalid

Spec == Init /\ [][Next]_vars

\* ---------------------------------------------------------------------
\* The commands that write, on a ledger that starts out absent
\* ---------------------------------------------------------------------
\* every combination of the flags --no-redact and --strict
Configs == {getRedactionConfig(noRedact, strict) : noRedact \in BOOLEAN, strict \in BOOLEAN}
Clean == <<"o","k">>
Secret == <<"p","w","d","=","a","b","c","d">>
Summaries == {Clean, Secret}
\* Math.random().toString(16).slice(2, 6)
Suffixes == {<<"a","1","b","2">>}

\* the inputs of add --json: one brings its own identifier, which reads
\* like a secret, its own timestamp and a secret, one is the shorthand
\* with type and summary at the top level
JsonInputs ==
  { JObj(<<Field(<<"i","d">>, JStr(Secret)), Field(<<"t","s">>, JStr(<<"2","0","2","6","-","0","1","-","3","1","T","0","0",":","0","0",":","0","0",".","0","0","0","Z">>)),
           Field(<<"a","c","t","i","o","n">>, ActionOf(<<"e","x","e","c">>, Secret, EmptyList))>>),
    JObj(<<Field(<<"t","y","p","e">>, JStr(<<"e","x","e","c">>)), Field(<<"s","u","m","m","a","r","y">>, JStr(Clean))>>) }
\* the answers given to the prompts: the summary, and whether to save
Answers == {<<Secret, TRUE>>, <<Clean, FALSE>>}
QuickSummaries == {<<" ">> \o Secret \o <<" ">>}
\* the events of an imported file: one with a secret in its request and no
\* timestamp, one the adapter rejects, one clean with a timestamp of its own
EventFiles ==
  { << JObj(<<Field(<<"t","o","o","l">>, JStr(<<"e","x","e","c">>)), Field(<<"r","e","s","u","l","t">>, JStr(<<"f","a","i","l","u","r","e">>)),
              Field(<<"r","e","q","u","e","s","t">>, JStr(Secret))>>),
       JObj(<<Field(<<"t","o","o","l">>, JStr(<<>>)), Field(<<"r","e","s","u","l","t">>, JStr(<<"s","u","c","c","e","s","s">>))>>),
       JObj(<<Field(<<"t","o","o","l">>, JStr(<<"i","m","a","g","e">>)), Field(<<"r","e","s","u","l","t">>, JStr(<<"s","u","c","c","e","s","s">>)),
              Field(<<"t","i","m","e","s","t","a","m","p">>, JStr(<<"2","0","2","6","-","0","1","-","3","1","T","0","0",":","0","0",":","0","0",".","0","0","0","Z">>))>>) >> }
\* the flags an import is run with
ImportFlags ==
  {<<config, FALSE>> : config \in Configs} \cup {<<getRedactionConfig(FALSE, FALSE), TRUE>>}

InitCli == exists = FALSE /\ content = <<>> /\ InitCommon

\* a command and what it leaves behind: every value it hands to appendEntry
\* becomes a line of the file
Command(op, config, dryRun, outcome) ==
  /\ content' = AppendEach(content, outcome.appended)
  /\ exists' = (exists \/ outcome.appended # <<>>)
  /\ written' = written \o [n \in 1..Len(outcome.appended) |-> Written(outcome.appended[n], now)]
  /\ last' = Operation(op, config, dryRun, outcome, exists, content)
  /\ ran' = ran + 1
  /\ UNCHANGED <<now, reading, input, output, extra, appenders>>

Add ==
  /\ ran < MaxCommands
  /\ \E summary \in Summaries, config \in Configs, suffix \in Suffixes :
       Command("add", config, FALSE, handleAdd(<<"e","x","e","c">>, summary, config, now, suffix))

AddJson ==
  /\ ran < MaxCommands
  /\ \E data \in JsonInputs, config \in Configs, suffix \in Suffixes :
       Command("add --json", config, FALSE, handleAddJson(data, config, now, suffix))

InteractiveAdd ==
  /\ ran < MaxCommands
  /\ \E answer \in Answers, config \in Configs, suffix \in Suffixes :
       Command("add -i", config, FALSE,
               handleInteractiveAdd(<<"e","x","e","c">>, answer[1], answer[2], config, now, suffix))

QuickAdd ==
  /\ ran < MaxCommands
  /\ \E summary \in QuickSummaries, config \in Configs, suffix \in Suffixes :
       Command("q", config, FALSE, handleQuickCapture(summary, config, now, suffix))

ImportFile ==
  /\ ran < MaxCommands
  /\ \E events \in EventFiles, flags \in ImportFlags, suffix \in Suffixes :
       Command("import", flags[1], flags[2],
               handleImport(events, flags[1], flags[2], now, suffix))

\* a second passes
Tick ==
  /\ now < MaxClock
  /\ now' = now + 1
  /\ UNCHANGED <<exists, content, ran, last, reading, written, input, output, extra, appenders>>

NextCli == Add \/ AddJson \/ InteractiveAdd \/ QuickAdd \/ ImportFile \/ Tick

SpecCli == InitCli /\ [][NextCli]_vars

\* ---------------------------------------------------------------------
\* The redaction engine on its own, over structures drawn from a few
\* strings and keys
\* ---------------------------------------------------------------------
Leftover == <<"t","o","k","e","n","=","p","w","d"," ","=","a","b","c","d">>
AwsKey == <<"A","K","I","A","I","O","S","F","O","D","N","N","7","E","X","A","M","P","L","E">>
BearerToken == <<"B","e","a","r","e","r"," ","a","b","c","D","E","F","0","1","2","3","4","5","6","7","8","9","w","x","y","z">>
\* a bearer token that runs into a key=value pair
Overlap == <<"B","e","a","r","e","r"," ","a","a","a","a","a","a","a","a","a","a","a","a","a","a","a","a","a","a","a","a",".","t","o","k","e","n","=","a","b","c","d">>
\* two secrets side by side
Both == <<"A","K","I","A","I","O","S","F","O","D","N","N","7","E","X","A","M","P","L","E"," ","p","w","d","=","a","b","c","d">>
RedactStrings == {<<>>, Clean, Secret, Leftover, AwsKey, BearerToken, Overlap, Both}
RedactKeys == {<<"n","o","t","e">>, <<"p","a","s","s","w","o","r","d">>, <<"A","P","I","-","K","e","y">>}

\* { [key]: s }
Flat(key, s) == JObj(<<Field(key, JStr(s))>>)
\* { note: s1, list: [s2, 1, { [key]: s1 }], [key]: { inner: s2 } }
Nested(key, s1, s2) ==
  JObj(<<Field(<<"n","o","t","e">>, JStr(s1)),
         Field(<<"l","i","s","t">>, JArr(<<JStr(s2), JNum(1), Flat(key, s1)>>)),
         Field(key, JObj(<<Field(<<"i","n","n","e","r">>, JStr(s2))>>))>>)
\* { [key]: v, secret: "" } for a value v that is no string
Flat2(key, v) == JObj(<<Field(key, v), Field(<<"s","e","c","r","e","t">>, JStr(<<>>))>>)
NotStrings ==
  {JNum(1), JBool(TRUE), JNull, JArr(<<JStr(Secret), JStr(Clean)>>),
   JObj(<<Field(<<"t","o","k","e","n">>, JStr(Clean)), Field(<<"n","o","t","e">>, JStr(Clean))>>)}
RedactInputs ==
  {Flat(key, s) : key \in RedactKeys, s \in RedactStrings}
  \cup {Nested(key, s1, s2) : key \in {<<"n","o","t","e">>, <<"p","a","s","s","w","o","r","d">>},
                              s1 \in {Clean, Secret}, s2 \in {Clean, Leftover, AwsKey}}
  \cup {JStr(s) : s \in RedactStrings}
  \cup {JArr(<<JStr(s), JNull, JStr(Secret)>>) : s \in {Clean, BearerToken}}
  \cup {Flat2(key, v) : key \in {<<"n","o","t","e">>, <<"p","a","s","s","w","o","r","d">>}, v \in NotStrings}

InitRedact ==
  /\ exists = FALSE /\ content = <<>> /\ now = 0 /\ ran = 0 /\ last = NoOperation
  /\ reading = NoReading /\ written = <<>>
  /\ input \in RedactInputs
  /\ output = NoOutput
  /\ extra = <<>> /\ appenders = <<>>

\* what redactObject returned, with the mode it was called in
Returned(mode, r) ==
  [mode |-> mode, threw |-> r.threw, value |-> r.value, matches |-> r.matches]

\* redactObject(input) with the default options
RedactDefault ==
  /\ output' = Returned("redact", redactObject(input, RedactOptions("redact")))
  /\ UNCHANGED <<exists, content, now, ran, last, reading, written, input, extra, appenders>>

\* redactObject(input, { mode: "strict" })
RedactStrict ==
  /\ output' = Returned("strict", redactObject(input, RedactOptions("strict")))
  /\ UNCHANGED <<exists, content, now, ran, last, reading, written, input, extra, appenders>>

NextRedact == RedactDefault \/ RedactStrict

SpecRedact == InitRedact /\ [][NextRedact]_vars


\* ---------------------------------------------------------------------
\* The two matching functions called again and again with pattern objects
\* of the caller
\* ---------------------------------------------------------------------
\* /custom/i, /custom/g and /key/g
CustomRe == Re(Lit(<<"c","u","s","t","o","m">>), TRUE)
CustomGlobal == Global(Re(Lit(<<"c","u","s","t","o","m">>), FALSE))
KeyGlobal == Global(Re(Lit(<<"k","e","y">>), FALSE))
MatchExtras == {<<>>, <<CustomRe>>, <<CustomGlobal>>, <<KeyGlobal>>,
                <<KeyGlobal, CustomGlobal>>, <<CustomGlobal, KeyGlobal>>}
MatchKeys == {<<"c","u","s","t","o","m">>, <<"m","y","_","c","u","s","t","o","m","_","k","e","y">>, <<"k","e","y">>, <<"k","e","y","s"," ","o","f"," ","c","u","s","t","o","m">>,
              <<"p","a","s","s","w","o","r","d">>, <<"n","o","t","e">>}
MatchValues == {Clean, Secret, <<"a"," ","c","u","s","t","o","m"," ","k","e","y">>, <<"k","e","y","=","c","u","s","t","o","m">>}

InitMatch ==
  /\ exists = FALSE /\ content = <<>> /\ now = 0 /\ ran = 0 /\ last = NoOperation
  /\ reading = NoReading /\ written = <<>> /\ input = JUndefined /\ output = NoOutput
  /\ appenders = <<>>
  /\ extra \in MatchExtras

\* a call of fn with arg and the caller's patterns, and what it returned
Called(fn, arg, result) == [mode |-> fn, arg |-> arg, result |-> result]

\* isSensitiveKey(key, extra)
CallIsSensitiveKey ==
  /\ \E key \in MatchKeys :
       /\ output' = Called("isSensitiveKey", key, isSensitiveKey(key, extra))
       /\ extra' = AfterIsSensitiveKey(key, extra)
  /\ UNCHANGED <<exists, content, now, ran, last, reading, written, input, appenders>>

\* findSensitivePatterns(value, extra)
CallFindSensitivePatterns ==
  /\ \E value \in MatchValues :
       /\ output' = Called("findSensitivePatterns", value, findSensitivePatterns(value, extra))
       /\ extra' = AfterFindSensitivePatterns(extra)
  /\ UNCHANGED <<exists, content, now, ran, last, reading, written, input, appenders>>

NextMatch == CallIsSensitiveKey \/ CallFindSensitivePatterns

SpecMatch == InitMatch /\ [][NextMatch]_vars

\* ---------------------------------------------------------------------
\* Two processes inside appendEntry at the same time, on a ledger that
\* appendEntry wrote.  appendFileSync opens the file in append mode and
\* hands its line to the operating system in one write.
\* ---------------------------------------------------------------------
Procs == {1, 2}
ConcurrentFiles ==
  {<<>>, AppendEach(<<>>, <<Entry1>>), AppendEach(<<>>, <<Entry2, Entry1>>)}
\* a process in appendEntry(entry): called, ready (directory ensured, line
\* made), done (line handed over)
Appender(pc, entry) == [pc |-> pc, entry |-> entry]
\* the records the processes append
Records == {entry \in Appendable : AuditEntryAccepts(entry)}

InitConcurrent ==
  /\ \/ exists = FALSE /\ content = <<>>
     \/ exists = TRUE /\ content \in ConcurrentFiles
  /\ now = 0 /\ ran = 0 /\ reading = NoReading /\ written = <<>>
  /\ input = JUndefined /\ output = NoOutput /\ extra = <<>>
  /\ last = Operation("appends", getRedactionConfig(TRUE, FALSE), FALSE, Nothing(0),
                      exists, content)
  /\ appenders \in [Procs -> {Appender("called", entry) : entry \in Records}]

\* ensureDir(opts.ledgerPath); const line = JSON.stringify(entry)
EnsureDir(p) ==
  /\ appenders[p].pc = "called"
  /\ appenders' = [appenders EXCEPT ![p].pc = "ready"]
  /\ UNCHANGED <<exists, content, now, ran, last, reading, written, input, output, extra>>

\* fs.appendFileSync(opts.ledgerPath, line + "\n")
AppendFile(p) ==
  /\ appenders[p].pc = "ready"
  /\ content' = appendEntry(content, appenders[p].entry)
  /\ exists' = TRUE
  /\ written' = Append(written, Written(appenders[p].entry, now))
  /\ appenders' = [appenders EXCEPT ![p].pc = "done"]
  /\ UNCHANGED <<now, ran, last, reading, input, output, extra>>

\* a third process in readEntries, strict.  The stream reads the file
\* from its own position, chunk by chunk, until a read returns nothing;
\* readline keeps what is left of a chunk after its last newline for the
\* next one.  reading.of is what the stream has delivered, output.arg the
\* file as it was when the read started.
Streaming(of) ==
  [mode |-> "open", existed |-> TRUE, of |-> of, result |-> Run(<<>>, <<>>, NoError, 0)]
\* if (!fs.existsSync(path)) return; fs.createReadStream(path)
OpenRead ==
  /\ reading.mode # "open"
  /\ reading' = IF exists THEN Streaming(<<>>) ELSE Reading("strict", FALSE, <<>>)
  /\ output' = Called("readEntries", content, exists)
  /\ UNCHANGED <<exists, content, now, ran, last, written, input, extra, appenders>>
\* one read of the stream, which delivers some or all of what the file
\* holds after the position of the stream
ReadChunk ==
  /\ reading.mode = "open"
  /\ \E to \in (Len(reading.of) + 1)..Len(content) :
       reading' = Streaming(reading.of \o SubSeq(content, Len(reading.of) + 1, to))
  /\ UNCHANGED <<exists, content, now, ran, last, written, input, output, extra, appenders>>
\* a read of the stream that returns nothing: the loop over the lines
\* has seen all that was delivered
ReadEnd ==
  /\ reading.mode = "open" /\ Len(reading.of) >= Len(content)
  /\ reading' = Reading("strict", TRUE, reading.of)
  /\ UNCHANGED <<exists, content, now, ran, last, written, input, output, extra, appenders>>

NextConcurrent ==
  \/ \E p \in Procs : EnsureDir(p)
  \/ \E p \in Procs : AppendFile(p)
  \/ OpenRead
  \/ ReadChunk
  \/ ReadEnd

SpecConcurrent == InitConcurrent /\ [][NextConcurrent]_vars

\* ---------------------------------------------------------------------
\* show <id> on a ledger that appendEntry goes on writing
\* ---------------------------------------------------------------------
ShowIds == {<<"e","n","t","r","y","-","1">>, <<"e","n","t","r","y","-","2">>, <<"m","i","s","s","i","n","g">>, <<"-","v">>}

\* show <id>; reading is the read of loadAllEntries
ShowEntry ==
  /\ \E id \in ShowIds : output' = Called("show", id, handleShow(exists, content, id))
  /\ reading' = Reading("strict", exists, content)
  /\ UNCHANGED <<exists, content, now, ran, last, written, input, extra, appenders>>

NextShow == AppendEntry \/ ShowEntry

SpecShow == Init /\ [][NextShow]_vars

\* ---------------------------------------------------------------------
\* makeId called again and again as the clock goes on
\* ---------------------------------------------------------------------
MaxIds == 2
\* values of Math.random(): 0, 0.5, and others with a longer fraction
Randoms == {<<>>, <<"8">>, <<"a","1","b","2","c","3","d","4","e","5","f","6","a">>, <<"a","1","b","2","c","3","d","4","e","5","f","6","b">>, <<"0","0","f","f","1">>, <<"0","c","4">>}

InitId ==
  /\ exists = FALSE /\ content = <<>> /\ now = 0 /\ ran = 0 /\ last = NoOperation
  /\ reading = NoReading /\ written = <<>> /\ input = JUndefined
  /\ extra = <<>> /\ appenders = <<>>
  /\ output = Called("makeId", <<>>, <<>>)

\* makeId(); output.result are the identifiers returned so far
MakeId ==
  /\ Len(output.result) < MaxIds
  /\ \E random \in Randoms :
       output' = Called("makeId", random,
                        Append(output.result, makeId(now, RandomSuffix(random))))
  /\ UNCHANGED <<exists, content, now, ran, last, reading, written, input, extra, appenders>>

NextId == MakeId \/ Tick

SpecId == InitId /\ [][NextId]_vars
\* ---------------------------------------------------------------------
\* Properties
\* ---------------------------------------------------------------------
IsPrefix(a, b) == Len(a) <= Len(b) /\ SubSeq(b, 1, Len(a)) = a
\* what an operation added to the file
AddedLines(before, after) == SubSeq(after, Len(before) + 1, Len(after))
\* the turn the reader takes on each line of a file
TurnsOf(file) == Once([k \in 1..Len(Lines(file)) |-> ReadLine(Lines(file)[k], k)])
FaultyIn(turn) == {k \in 1..Len(turn) : turn[k].does = "fault"}
\* the records of the valid lines among the first n
ValidUpTo(turn, n) ==
  Once([k \in 1..Cardinality({j \in 1..n : turn[j].does = "yield"}) |->
          turn[Nth({j \in 1..n : turn[j].does = "yield"}, k)].entry])

\* C1: when a strict read of the file before an append runs through
\* without a fault and yields N records, a strict read after the append
\* yields those N records followed by the appended one, N + 1 in all.
AppendKeeps(before, after, appended) ==
  before.thrown = NoError
  => after.thrown = NoError /\ after.yielded = before.yielded \o appended
C1_AppendYieldsOneMore ==
  last.op = "append"
  => AppendKeeps(readEntries(last.existed, last.before, FALSE),
                 readEntries(exists, content, FALSE), last.appended)
\* C1: an append has been made to a file all of whose lines are valid
C1_Witness ==
  /\ last.op = "append"
  /\ readEntries(last.existed, last.before, FALSE).thrown = NoError
  /\ Len(readEntries(last.existed, last.before, FALSE).yielded) >= 2

\* C2: every step of the store leaves the old file content as a prefix of
\* the new one and never removes the file; a step that changes the file is
\* an append, and a read changes nothing of the file.
C2_FileOnlyGrows ==
  [][/\ IsPrefix(content, content')
     /\ (exists => exists')
     /\ (content' # content \/ exists' # exists
           => written' # written /\ last'.op = "append" /\ reading' = reading)
     /\ (reading' # reading => content' = content /\ exists' = exists)]_vars
\* C2: an append was made to a file that had content, and a strict read of
\* the result has aborted with a fault
C2_Witness ==
  /\ last.op = "append" /\ last.before # <<>>
  /\ reading.mode = "strict" /\ reading.of = content
  /\ reading.result.thrown # NoError

\* the lines that the calls of redactObject which returned a value stand for
ScanLines(scanned) ==
  Flatten([n \in 1..Len(scanned) |->
             IF scanned[n].result.threw THEN <<>>
             ELSE <<stringify(scanned[n].result.value), NL>>])
WritingCommands == {"add", "add --json", "add -i", "q", "import"}
\* each line the latest command added is what redactObject returned for an
\* entry the command built, in the order of the calls
WroteRedacted ==
  /\ IsPrefix(last.before, content)
  /\ \A n \in 1..Len(last.scanned) : \E k \in 1..Len(last.built) :
       last.scanned[n].of = last.built[k]
  /\ AddedLines(last.before, content) = IF last.dryRun THEN <<>> ELSE ScanLines(last.scanned)

\* C3: in every execution of every writing command, the lines added to the
\* file are outputs of the redaction engine.
C3_EveryWriteRedacted == last.op \in WritingCommands => WroteRedacted
\* C3, amended: in every execution of a writing command that is not run
\* with --no-redact, the lines added to the file are outputs of the
\* redaction engine.
C3_WriteRedactedUnlessDisabled ==
  last.op \in WritingCommands /\ last.config.enabled => WroteRedacted
\* C3: add has appended an entry that redaction changed
C3_Witness ==
  /\ last.op = "add" /\ last.config.enabled /\ last.exit = 0
  /\ Len(last.appended) = 1 /\ last.appended[1] # last.built[1]
  /\ AddedLines(last.before, content) = <<stringify(last.appended[1]), NL>>

\* the string values of a structure in depth-first order, each with its
\* path and, for a member of an object, its key
RECURSIVE Leaves(_, _, _)
Leaves(value, path, key) ==
  CASE value.kind = "string" -> <<[path |-> path, key |-> key, val |-> value.val]>>
    [] value.kind = "array" ->
         Flatten([n \in 1..Len(value.val) |->
                    Leaves(value.val[n], path \o <<"[">> \o NumToString(n - 1) \o <<"]">>, <<>>)])
    [] value.kind = "object" ->
         Flatten([n \in 1..Len(value.val) |->
                    Leaves(value.val[n][2],
                           IF path = <<>> THEN value.val[n][1]
                           ELSE path \o <<".">> \o value.val[n][1],
                           value.val[n][1])])
    [] OTHER -> <<>>
LeavesOf(value) == Leaves(value, <<>>, <<>>)
Contains(s, sub) == \E i \in 1..(Len(s) - Len(sub) + 1) : SubSeq(s, i, i + Len(sub) - 1) = sub
Matches(s) == findSensitivePatterns(s, <<>>) # <<>>

\* C4: after redactObject in redact mode, no string of the input that
\* matched a built-in value pattern still matches one in the output, and
\* when some string matched, [REDACTED] occurs in the output.
CleanAfter(ins, outs) ==
  /\ Len(outs) = Len(ins)
  /\ \A n \in 1..Len(ins) : Matches(ins[n].val) => ~Matches(outs[n].val)
  /\ (\E n \in 1..Len(ins) : Matches(ins[n].val))
       => \E n \in 1..Len(outs) : Contains(outs[n].val, DEFAULT_REPLACEMENT)
C4_RedactLeavesNoMatch ==
  output.mode = "redact" => CleanAfter(LeavesOf(input), LeavesOf(output.value))
\* C4: redact mode has replaced a matching string of the input
C4_Witness ==
  /\ output.mode = "redact"
  /\ \E n \in 1..Len(LeavesOf(input)) :
       /\ Matches(LeavesOf(input)[n].val)
       /\ Contains(LeavesOf(output.value)[n].val, DEFAULT_REPLACEMENT)

\* C5: a strict read of a file with a faulty line ends with the fault of
\* the first faulty line, has yielded exactly the records of the valid
\* lines before it, in file order, and has not gone past that line; a
\* strict read of a file without a faulty line yields every record.
StrictStops(result, turn, faulty) ==
  IF faulty = {}
  THEN result = Run(ValidUpTo(turn, Len(turn)), <<>>, NoError, Len(turn))
  ELSE /\ result.thrown = turn[SetMin(faulty)].error
       /\ result.thrown.lineNumber = SetMin(faulty)
       /\ result.yielded = ValidUpTo(turn, SetMin(faulty) - 1)
       /\ result.lineNumber = SetMin(faulty)
       /\ result.warnings = <<>>
C5_StrictAbortsAtFirstFault ==
  reading.mode = "strict" /\ reading.existed
  => StrictStops(reading.result, TurnsOf(reading.of), FaultyIn(TurnsOf(reading.of)))
\* C5: a strict read has aborted after yielding a record, with a valid
\* line still ahead
C5_Witness ==
  /\ reading.mode = "strict"
  /\ reading.result.thrown # NoError
  /\ Len(reading.result.yielded) >= 1
  /\ \E k \in 1..Len(TurnsOf(reading.of)) :
       k > reading.result.lineNumber /\ TurnsOf(reading.of)[k].does = "yield"

\* C6: a skip-invalid read never ends with a fault and reaches the last
\* line; it yields the records of all valid lines in file order and
\* writes one warning for each faulty line, in file order.
SkipRunsThrough(result, turn, faulty) ==
  /\ result.thrown = NoError
  /\ result.lineNumber = Len(turn)
  /\ result.yielded = ValidUpTo(turn, Len(turn))
  /\ Len(result.warnings) = Cardinality(faulty)
  /\ \A n \in 1..Cardinality(faulty) :
       result.warnings[n] = <<"W","a","r","n","i","n","g",":"," ">> \o turn[Nth(faulty, n)].error.message
C6_SkipInvalidRunsThrough ==
  reading.mode = "skip" /\ reading.existed
  => SkipRunsThrough(reading.result, TurnsOf(reading.of), FaultyIn(TurnsOf(reading.of)))
\* C6: a skip-invalid read has passed two faulty lines and yielded the
\* records around them
C6_Witness ==
  /\ reading.mode = "skip"
  /\ Len(reading.result.warnings) = 2
  /\ Len(reading.result.yielded) = 2

\* the shape YYYY-MM-DDTHH:MM:SS(.d+)?Z, character by character
IsoShape(s) ==
  /\ Len(s) >= 20
  /\ \A i \in {1, 2, 3, 4, 6, 7, 9, 10, 12, 13, 15, 16, 18, 19} : s[i] \in Digit
  /\ s[5] = "-" /\ s[8] = "-" /\ s[11] = "T" /\ s[14] = ":" /\ s[17] = ":"
  /\ s[Len(s)] = "Z"
  /\ Len(s) > 20 => Len(s) >= 22 /\ s[20] = "." /\ \A i \in 21..(Len(s) - 1) : s[i] \in Digit
IsList(v) == v.kind = "array" /\ \A n \in 1..Len(v.val) : v.val[n].kind = "string"
WellFormed(r) ==
  /\ r.kind = "object"
  /\ Get(r, <<"i","d">>).kind = "string" /\ Get(r, <<"i","d">>).val # <<>>
  /\ Get(r, <<"t","s">>).kind = "string" /\ IsoShape(Get(r, <<"t","s">>).val)
  /\ Get(r, <<"a","c","t","i","o","n">>).kind = "object"
  /\ Get(Get(r, <<"a","c","t","i","o","n">>), <<"t","y","p","e">>).kind = "string"
  /\ Get(Get(r, <<"a","c","t","i","o","n">>), <<"t","y","p","e">>).val \in ACTION_TYPES
  /\ Get(Get(r, <<"a","c","t","i","o","n">>), <<"s","u","m","m","a","r","y">>).kind = "string"
  /\ Get(Get(r, <<"a","c","t","i","o","n">>), <<"s","u","m","m","a","r","y">>).val # <<>>
  /\ IsList(Get(r, <<"w","h","a","t","_","i","_","d","i","d">>))
  /\ IsList(Get(r, <<"a","s","s","u","m","p","t","i","o","n","s">>))
  /\ IsList(Get(r, <<"u","n","c","e","r","t","a","i","n","t","i","e","s">>))

\* C7: every record a read has yielded, in either mode, has a non-empty
\* id, an ISO datetime as ts, an action with a type of the enumeration
\* and a non-empty summary, and its three lists present as lists.
C7_YieldedWellFormed ==
  \A n \in 1..Len(reading.result.yielded) : WellFormed(reading.result.yielded[n])
\* C7: a read has yielded the record of a line that had none of the lists
C7_Witness ==
  \E n \in 1..Len(reading.result.yielded) :
    /\ Get(reading.result.yielded[n], <<"i","d">>) = JStr(<<"b","a","r","e">>)
    /\ Get(reading.result.yielded[n], <<"u","n","c","e","r","t","a","i","n","t","i","e","s">>) = EmptyList

\* the second of the minute a record's timestamp names
SecondOf(entry) == DateOf(Get(entry, <<"t","s">>).val)
NonDecreasing(seconds) ==
  \A i \in 1..Len(seconds) : \A j \in i..Len(seconds) : seconds[i] <= seconds[j]
ReadsOf(file) == {readEntries(TRUE, file, skipInvalid).yielded : skipInvalid \in BOOLEAN}
\* the records written whose timestamp is the clock at their append
Stamped(log) == SelectSeq(log, LAMBDA w : Get(w.entry, <<"t","s">>).val = toISOString(w.at))

\* C8: in both read modes the records of a ledger written by the commands
\* are yielded in append order and in non-decreasing order of timestamp.
C8_Chronological ==
  \A yielded \in ReadsOf(content) :
    /\ yielded = [n \in 1..Len(written) |-> ToJson(written[n].entry)]
    /\ NonDecreasing([n \in 1..Len(yielded) |-> SecondOf(yielded[n])])
\* C8, amended: in both read modes the records of a ledger written by the
\* commands are yielded in append order; the timestamps of the records
\* that were stamped with the clock at their append are non-decreasing in
\* that order.
C8_AppendOrder ==
  /\ \A yielded \in ReadsOf(content) :
       yielded = [n \in 1..Len(written) |-> ToJson(written[n].entry)]
  /\ NonDecreasing([n \in 1..Len(Stamped(written)) |-> SecondOf(Stamped(written)[n].entry)])
\* C8: two records stamped with the clock were appended a second apart
C8_Witness ==
  /\ Len(written) >= 2 /\ Stamped(written) = written
  /\ written[1].at < written[Len(written)].at
  /\ Len(Lines(content)) = Len(written)

\* C9: after a command run in strict mode, an entry in which redactObject
\* detected a secret is not among the lines added; add, in each of its forms,
\* has then exited with status 1 and left the file as it was; import has
\* added the entries in which nothing was detected, and only those.
Rejected ==
  /\ \A n \in 1..Len(last.scanned) :
       last.scanned[n].result.threw
       => /\ \A i \in 1..Len(AddedLines(last.before, content)) :
               AddedLines(last.before, content)[i] # stringify(last.scanned[n].of)
          /\ last.op # "import"
               => last.exit = 1 /\ content = last.before /\ exists = last.existed
  /\ last.op = "import" /\ last.config.enabled /\ ~last.dryRun
       => AddedLines(last.before, content)
            = Flatten([n \in 1..Len(last.scanned) |->
                         IF last.scanned[n].result.threw THEN <<>>
                         ELSE <<stringify(last.scanned[n].of), NL>>])
C9_StrictRejects ==
  last.op \in WritingCommands /\ last.config.mode = "strict" => Rejected
\* C9: an import in strict mode has skipped an entry with a secret and
\* appended a clean one
C9_Witness ==
  /\ last.op = "import" /\ last.config.mode = "strict" /\ last.config.enabled
  /\ \E n \in 1..Len(last.scanned) : last.scanned[n].result.threw
  /\ Len(last.appended) = 1 /\ content # last.before

\* what strict mode is to report for one string value
Flagged(leaf) ==
  CASE leaf.val # <<>> /\ isSensitiveKey(leaf.key, <<>>) ->
         <<leaf.path \o <<":"," ","s","e","n","s","i","t","i","v","e"," ","k","e","y"," ","n","a","m","e">>>>
    [] Matches(leaf.val) ->
         <<leaf.path \o <<":", " ">> \o Join(findSensitivePatterns(leaf.val, <<>>), <<",", " ">>)>>
    [] OTHER -> <<>>
Expected(leaves) == Flatten([n \in 1..Len(leaves) |-> Flagged(leaves[n])])

\* C10: redactObject in strict mode raises its error exactly when some
\* string of the input is flagged, and the error's list holds one entry
\* with its path for every flagged string and every hit on a sensitive
\* key, in depth-first order of the whole input.
ListsAll(expected) ==
  /\ output.threw = (expected # <<>>)
  /\ output.matches = expected
  /\ ~output.threw => output.value = input
C10_StrictListsEveryMatch ==
  output.mode = "strict" => ListsAll(Expected(LeavesOf(input)))
\* C10: strict mode has raised an error that lists four detections, a hit
\* on a sensitive key among them
C10_Witness ==
  /\ output.mode = "strict" /\ output.threw
  /\ Len(output.matches) >= 4
  /\ \E n \in 1..Len(output.matches) : Contains(output.matches[n], <<"s","e","n","s","i","t","i","v","e"," ","k","e","y"," ","n","a","m","e">>)

\* C11: redacting in redact mode the structure that redact mode returned
\* yields that structure again, unchanged.
C11_RedactIdempotent ==
  output.mode = "redact"
  => redactObject(output.value, RedactOptions("redact")).value = output.value
\* C11: redact mode has changed its input, and a second pass over the
\* result changes nothing
C11_Witness ==
  /\ output.mode = "redact" /\ output.value # input
  /\ redactObject(output.value, RedactOptions("redact")).value = output.value

\* C12: after redact mode, every string of the input that is non-empty and
\* is the value of a member whose key is in the key catalog, at any depth,
\* has become exactly the replacement text, whatever it held.
KeyRedacted(ins, outs) ==
  /\ Len(outs) = Len(ins)
  /\ \A n \in 1..Len(ins) :
       ins[n].val # <<>> /\ isSensitiveKey(ins[n].key, <<>>)
       => outs[n].val = DEFAULT_REPLACEMENT
C12_SensitiveKeyReplaced ==
  output.mode = "redact" => KeyRedacted(LeavesOf(input), LeavesOf(output.value))
\* C12: redact mode has replaced a value that matches no value pattern,
\* under a sensitive key inside a list inside an object
C12_Witness ==
  /\ output.mode = "redact"
  /\ \E n \in 1..Len(LeavesOf(input)) :
       /\ LeavesOf(input)[n].val = Clean
       /\ isSensitiveKey(LeavesOf(input)[n].key, <<>>)
       /\ Contains(LeavesOf(input)[n].path, <<"]", ".">>)
       /\ LeavesOf(output.value)[n].val = DEFAULT_REPLACEMENT

\* C13: no entry of the match list of the strict-mode error contains the
\* whole text that a built-in value pattern matched in a string of the
\* input.
WholeMatches(leaves) ==
  UNION {{FirstMatches(SENSITIVE_VALUE_PATTERNS, leaves[n].val)[k] :
            k \in 1..Len(FirstMatches(SENSITIVE_VALUE_PATTERNS, leaves[n].val))} :
         n \in 1..Len(leaves)}
Retains(matches, whole) ==
  \E k \in 1..Len(matches) : \E m \in whole : Contains(matches[k], m)
C13_NoFullMatchRetained ==
  output.mode = "strict" /\ output.threw
  => ~Retains(output.matches, WholeMatches(LeavesOf(input)))
\* C13: the strict-mode error lists a match of more than 20 characters,
\* cut off after the 20th
C13_Witness ==
  /\ output.mode = "strict" /\ output.threw
  /\ \E m \in WholeMatches(LeavesOf(input)) :
       /\ Len(m) > 20
       /\ \E k \in 1..Len(output.matches) :
            Contains(output.matches[k], SubSeq(m, 1, 20) \o <<".", ".", ".">>)

\* C18: the text redact mode returns for a string is the text obtained by
\* applying the same patterns to that string in the opposite order.
Reverse(seq) == [k \in 1..Len(seq) |-> seq[Len(seq) + 1 - k]]
C18_OrderIndependent ==
  output.mode = "redact" /\ input.kind = "string"
  => RedactFrom(Reverse(SENSITIVE_VALUE_PATTERNS), 1, input.val, DEFAULT_REPLACEMENT)
       = output.value.val
\* C18: redact mode has replaced the matches of two patterns in one string,
\* and the opposite order gives the same text
C18_Witness ==
  /\ output.mode = "redact" /\ input.kind = "string"
  /\ Len(findSensitivePatterns(input.val, <<>>)) >= 2
  /\ RedactFrom(Reverse(SENSITIVE_VALUE_PATTERNS), 1, input.val, DEFAULT_REPLACEMENT)
       = output.value.val

\* C19: redactObject in strict mode raises its error exactly when
\* containsSecrets says true of the input, and when it does not raise it
\* returns a structure equal to the input.
C19_StrictIffContainsSecrets ==
  output.mode = "strict"
  => /\ output.threw = containsSecrets(input)
     /\ (~output.threw => output.value = input)
\* C19: strict mode has returned a nested structure without raising
C19_Witness ==
  /\ output.mode = "strict" /\ ~output.threw
  /\ input.kind = "object" /\ Len(LeavesOf(input)) >= 4
  /\ output.value = input

\* C17: whatever calls were made before, isSensitiveKey and
\* findSensitivePatterns return what they return for the same arguments
\* when the pattern objects are untouched.
Pristine(patterns) == [k \in 1..Len(patterns) |-> [patterns[k] EXCEPT !.lastIndex = 0]]
C17_Deterministic ==
  /\ output.mode = "isSensitiveKey"
       => output.result = isSensitiveKey(output.arg, Pristine(extra))
  /\ output.mode = "findSensitivePatterns"
       => output.result = findSensitivePatterns(output.arg, Pristine(extra))
\* C17: isSensitiveKey has found a key sensitive by a pattern of the caller
\* that has the g flag
C17_Witness ==
  /\ output.mode = "isSensitiveKey" /\ output.result
  /\ ~isSensitiveKey(output.arg, <<>>)
  /\ \E k \in 1..Len(extra) : extra[k].g /\ extra[k].lastIndex > 0

\* C14: every fault a read builds, for a line that is no JSON as for a
\* line that fails the schema, in either mode, carries the number of its
\* line counted from 1, the first 100 characters of the trimmed line, and
\* a cause.
Carries(error, k, trimmed) ==
  /\ error.lineNumber = k
  /\ IsPrefix(error.lineContent, trimmed)
  /\ Len(error.lineContent) = IF Len(trimmed) < 100 THEN Len(trimmed) ELSE 100
  /\ error.cause
FaultsCarry(file, turn) ==
  \A k \in FaultyIn(turn) : Carries(turn[k].error, k, trim(Lines(file)[k]))
C14_FaultCarriesAll ==
  reading.mode # "none" /\ reading.existed
  => FaultsCarry(reading.of, TurnsOf(reading.of))
\* C14: a strict read has ended with the fault of a second line of more
\* than 100 characters
C14_Witness ==
  /\ reading.mode = "strict"
  /\ reading.result.thrown.lineNumber = 2
  /\ Len(reading.result.thrown.lineContent) = 100
  /\ Len(Lines(reading.of)[2]) > 100

\* C15: when both processes have left appendEntry, the file is what it
\* was before, followed by the lines of the two records in the order
\* they were handed over, each complete; a strict read of it raises no
\* error and yields what a strict read yielded before, followed by the
\* two records.
BothKept(before, after) ==
  /\ after.thrown = NoError
  /\ after.yielded = before.yielded \o <<written[1].entry, written[2].entry>>
C15_ConcurrentAppendsKept ==
  appenders # <<>> /\ (\A p \in Procs : appenders[p].pc = "done")
  => /\ Len(written) = 2
     /\ content = last.before \o <<stringify(written[1].entry), NL>>
                               \o <<stringify(written[2].entry), NL>>
     /\ {written[1].entry, written[2].entry} = {appenders[p].entry : p \in Procs}
     /\ BothKept(readEntries(last.existed, last.before, FALSE),
                 readEntries(exists, content, FALSE))
     /\ (reading.mode = "strict" /\ reading.of = content
           => reading.result = readEntries(exists, content, FALSE))
\* C15: two processes that were in appendEntry at the same time, the
\* second the first to hand over its line, are both done, on a ledger that
\* held lines before, and a strict read has been made since
C15_Witness ==
  /\ appenders # <<>> /\ (\A p \in Procs : appenders[p].pc = "done")
  /\ last.before # <<>>
  /\ written[1].entry = appenders[2].entry /\ appenders[1].entry # appenders[2].entry
  /\ reading.mode = "strict" /\ reading.of = content
  /\ Len(reading.result.yielded) >= 3

\* C16: a record handed to appendEntry that the schema accepts, written as
\* JSON, read back and validated, is the same record again.
RECURSIVE Present(_)
Present(value) ==
  CASE value.kind = "object" ->
         JObj(SelectSeq([n \in 1..Len(value.val) |->
                           <<value.val[n][1], Present(value.val[n][2])>>],
                        LAMBDA e : e[2].kind # "undefined"))
    [] value.kind = "array" -> JArr([n \in 1..Len(value.val) |-> Present(value.val[n])])
    [] OTHER -> value
HasLists(r) ==
  /\ IsList(Get(r, <<"w","h","a","t","_","i","_","d","i","d">>))
  /\ IsList(Get(r, <<"a","s","s","u","m","p","t","i","o","n","s">>))
  /\ IsList(Get(r, <<"u","n","c","e","r","t","a","i","n","t","i","e","s">>))
  /\ IsList(Get(Get(r, <<"a","c","t","i","o","n">>), <<"a","r","t","i","f","a","c","t","s">>))
  /\ Has(r, <<"v","e","r","i","f","i","c","a","t","i","o","n">>)
       => /\ IsList(Get(Get(r, <<"v","e","r","i","f","i","c","a","t","i","o","n">>), <<"s","u","g","g","e","s","t","e","d">>))
          /\ IsList(Get(Get(r, <<"v","e","r","i","f","i","c","a","t","i","o","n">>), <<"o","b","s","e","r","v","e","d">>))
ComesBack(entry, back) ==
  back.does = "yield" /\ back.entry = Present(entry) /\ HasLists(back.entry)
RoundTrips(entry, back) == back.does = "yield" /\ back.entry = entry
C16_RoundTripExact ==
  \A n \in 1..Len(written) :
    AuditEntryAccepts(written[n].entry)
    => RoundTrips(written[n].entry, ReadLine(<<stringify(written[n].entry)>>, 1))
\* C16 as amended: equal member by member, a member whose value is
\* undefined in the record counting as absent, and the list members lists.
C16_RoundTrip ==
  \A n \in 1..Len(written) :
    AuditEntryAccepts(written[n].entry)
    => ComesBack(written[n].entry, ReadLine(<<stringify(written[n].entry)>>, 1))
\* C16: a record built from JSON input that left the lists out has been
\* handed to appendEntry with its lists empty and comes back as it is,
\* after a record with a member of value undefined
C16_Witness ==
  /\ last.op = "add --json" /\ last.appended # <<>>
  /\ written # <<>> /\ written[Len(written)].entry = last.appended[1]
  /\ AuditEntryAccepts(last.appended[1])
  /\ Get(last.appended[1], <<"w","h","a","t","_","i","_","d","i","d">>) = JArr(<<>>)
  /\ ReadLine(<<stringify(last.appended[1])>>, 1).entry = last.appended[1]
  /\ \E n \in 1..Len(written) : Present(written[n].entry) # written[n].entry

\* C20: a read of a path at which there is no file, in either mode, yields
\* no record, writes no warning and raises no error.
C20_MissingFileReadsEmpty ==
  reading.mode # "none" /\ ~reading.existed
  => /\ reading.result.yielded = <<>>
     /\ reading.result.warnings = <<>>
     /\ reading.result.thrown = NoError
\* C20: a strict read of a path without a file has been made
C20_Witness ==
  /\ reading.mode = "strict" /\ ~reading.existed /\ ~exists
  /\ reading.result.yielded = <<>> /\ reading.result.thrown = NoError

\* C27: what redact mode returns is accepted by strict mode:
\* containsSecrets says false of it.
C27_RedactedPassesStrict ==
  output.mode = "redact" => ~containsSecrets(output.value)
\* C27: redact mode has replaced a value and strict mode accepts the
\* result
C27_Witness ==
  /\ output.mode = "redact" /\ output.value # input /\ ~containsSecrets(output.value)

\* C28: a member of the input whose key is sensitive and whose value is
\* not a non-empty string comes out as it does under a key that is not
\* sensitive, in redact mode, and in strict mode it is flagged exactly
\* when it is flagged under such a key; an empty string stays as it is.
Neutral == <<"x">>
UnderNeutral(v, mode) == redactObject(JObj(<<Field(Neutral, v)>>), RedactOptions(mode))
NotInherited(key, v, out) ==
  isSensitiveKey(key, <<>>) /\ ~(v.kind = "string" /\ v.val # <<>>)
  => /\ out = UnderNeutral(v, "redact").value.val[1][2]
     /\ v.kind = "string" => out = v
C28_KeyNotInherited ==
  /\ output.mode = "redact" /\ input.kind = "object"
       => \A n \in 1..Len(input.val) :
            NotInherited(input.val[n][1], input.val[n][2], output.value.val[n][2])
  /\ output.mode = "strict" /\ input.kind = "object"
       => output.threw =
            \E n \in 1..Len(input.val) :
              IF isSensitiveKey(input.val[n][1], <<>>)
                 /\ input.val[n][2].kind = "string" /\ input.val[n][2].val # <<>>
              THEN TRUE
              ELSE UnderNeutral(input.val[n][2], "strict").threw
\* C28: redact mode has gone into a list under a sensitive key and has
\* replaced the one string in it that matches a value pattern, leaving
\* the other string and an empty string under a sensitive key alone
C28_Witness ==
  /\ output.mode = "redact"
  /\ input = Flat2(<<"p","a","s","s","w","o","r","d">>, JArr(<<JStr(Secret), JStr(Clean)>>))
  /\ output.value = Flat2(<<"p","a","s","s","w","o","r","d">>, JArr(<<JStr(DEFAULT_REPLACEMENT), JStr(Clean)>>))

\* C21: every identifier makeId has returned matches
\* ^\d{8}T\d{6}Z-[0-9a-f]{4}$.
IdRe ==
  Re(Cat(<<BOL, Rep(Cls(Digit), 8, 8), Lit(<<"T">>), Rep(Cls(Digit), 6, 6), Lit(<<"Z">>),
           Lit(<<"-">>), Rep(Cls(Digit \cup {"a", "b", "c", "d", "e", "f"}), 4, 4), EOL>>), FALSE)
C21_IdFormat ==
  \A n \in 1..Len(output.result) : Test(IdRe, output.result[n])
\* C21: makeId has returned an identifier of that form at second 1
C21_Witness ==
  /\ now = 1 /\ output.result # <<>>
  /\ output.result[Len(output.result)] = <<"2","0","2","6","0","1","3","1","T","0","0","0","0","0","1","Z","-","a","1","b","2">>

\* C22: no two calls of makeId have returned the same identifier.
C22_IdsUnique ==
  \A i \in 1..Len(output.result) : \A j \in 1..Len(output.result) :
    i # j => output.result[i] # output.result[j]
\* C22: two calls of makeId within one second have returned two
\* identifiers that differ
C22_Witness ==
  /\ Len(output.result) = 2 /\ output.result[1] # output.result[2]
  /\ SubSeq(output.result[1], 1, 16) = SubSeq(output.result[2], 1, 16)

\* the entries with the identifier id among those that the read of show
\* yielded, in file order
Sharing(id) == SelectSeq(reading.result.yielded, LAMBDA e : Get(e, <<"i","d">>) = JStr(id))
Loaded == output.mode = "show" /\ reading.result.thrown = NoError
\* C23: when records of the ledger share the identifier asked for, show
\* succeeds and prints the one that is last in file order.
C23_ShowsLast ==
  Loaded /\ Len(Sharing(output.arg)) >= 2
  => /\ output.result.exit = 0
     /\ output.result.entry = Sharing(output.arg)[Len(Sharing(output.arg))]
\* C23, amended: when records of the ledger share the identifier asked
\* for, show succeeds and prints the one that is first in file order.
C23_ShowsFirst ==
  Loaded /\ Len(Sharing(output.arg)) >= 2
  => /\ output.result.exit = 0
     /\ output.result.entry = Sharing(output.arg)[1]
\* C23: show has printed the first of two different records with the
\* identifier asked for
C23_Witness ==
  /\ Loaded /\ Len(Sharing(output.arg)) = 2
  /\ Sharing(output.arg)[1] # Sharing(output.arg)[2]
  /\ output.result = Shown(0, Sharing(output.arg)[1])

\* the number of the physical line that holds position i of a file
PhysicalLine(file, i) == 1 + Cardinality({j \in 1..(i - 1) : file[j].t = "nl"})
\* the positions of a file that hold something other than a blank or a
\* newline, and the physical lines they are on
SolidAt(file) == {i \in 1..Len(file) : file[i].t \in {"text", "json"}}
SolidOn(file) == {PhysicalLine(file, i) : i \in SolidAt(file)}
\* the physical lines that hold exactly the JSON text of a valid record,
\* with or without blanks around it
Sound(file, k) ==
  /\ Cardinality({i \in SolidAt(file) : PhysicalLine(file, i) = k}) = 1
  /\ \A i \in SolidAt(file) :
       PhysicalLine(file, i) = k => file[i].t = "json" /\ AuditEntryAccepts(file[i].v)
SoundOn(file) == {k \in SolidOn(file) : Sound(file, k)}
EndsWith(s, t) == Len(s) >= Len(t) /\ SubSeq(s, Len(s) - Len(t) + 1, Len(s)) = t
\* what a read of a file with the non-blank lines solid, of which sound
\* are valid records, has to return
BlanksSkipped(mode, result, solid, sound) ==
  /\ mode = "skip"
       => /\ Len(result.yielded) = Cardinality(sound)
          /\ Len(result.warnings) = Cardinality(solid \ sound)
          /\ \A n \in 1..Len(result.warnings) :
               EndsWith(result.warnings[n],
                        <<" ">> \o NumToString(Nth(solid \ sound, n)))
          /\ result.thrown = NoError
  /\ mode = "strict" /\ solid = sound
       => result.thrown = NoError /\ Len(result.yielded) = Cardinality(sound)
  /\ mode = "strict" /\ solid # sound
       => /\ result.thrown.lineNumber = SetMin(solid \ sound)
          /\ Len(result.yielded) = Cardinality({k \in sound : k < SetMin(solid \ sound)})
\* C24: a read skips the lines that are empty or hold blanks only: in
\* skip-invalid mode it yields one record for each line that holds a valid
\* record and warns once for each other non-blank line; a strict read
\* raises for the first such line; the line number in a warning and in a
\* fault is the position of the line among all the lines of the file,
\* the blank ones included.
C24_BlankLinesSkipped ==
  reading.mode # "none" /\ reading.existed
  => BlanksSkipped(reading.mode, reading.result, SolidOn(reading.of), SoundOn(reading.of))
\* C24: a strict read of a file whose first two lines are blank and
\* whose third is no JSON has raised a fault for line 3
C24_Witness ==
  /\ reading.mode = "strict" /\ Len(reading.of) >= 4
  /\ reading.of[1] = NL /\ reading.of[2] = SP /\ reading.of[3] = NL /\ reading.of[4] = Garbage
  /\ reading.result.thrown.lineNumber = 3

\* the position in the file of the line of the n-th value appended
WrittenAt(n) == Len(content) - 2 * (Len(written) - n) - 1
\* each value appended is in the file, as its JSON text and a newline
LinesWritten ==
  /\ Len(content) >= 2 * Len(written)
  /\ \A n \in 1..Len(written) :
       /\ content[WrittenAt(n)] = JsonText(ToJson(written[n].entry))
       /\ content[WrittenAt(n) + 1] = NL
\* what the reads of the ledger return once the value on line k is
\* invalid
Poisoned(strict, skip, k, solid, sound) ==
  /\ strict.thrown # NoError
  /\ strict.thrown.lineNumber = SetMin(solid \ sound)
  /\ strict.thrown.lineNumber <= k
  /\ Len(strict.yielded) = Cardinality({j \in sound : j < strict.thrown.lineNumber})
  /\ skip.thrown = NoError
  /\ Len(skip.yielded) = Cardinality(sound)
HasNewline(text) == \E i \in 1..Len(text) : text[i] = "\n"
\* C30: every value appended is in the file as one line, its JSON text
\* and a newline, in the order of the appends and after what the file
\* held before; no string of the text holds a raw newline; a file that
\* held nothing before holds exactly these lines.
C30_OneLinePerAppend ==
  /\ LinesWritten
  /\ \A n \in 1..Len(written) :
       \A s \in Strings(ToJson(written[n].entry)) : ~HasNewline(Quote(s))
  /\ Len(content) = 2 * Len(written)
       => /\ Cardinality({i \in 1..Len(content) : content[i].t = "nl"}) = Len(written)
          /\ Lines(content) = [n \in 1..Len(written) |-> <<JsonText(ToJson(written[n].entry))>>]
\* C30: a ledger that did not exist holds two lines after two appends,
\* the first of a record with a newline in its summary
C30_Witness ==
  /\ exists /\ Len(written) = 2 /\ Len(content) = 4
  /\ written[1].entry = Twin /\ written[2].entry = Entry2
  /\ HasNewline(Get(Get(Twin, <<"a","c","t","i","o","n">>), <<"s","u","m","m","a","r","y">>).val)

\* the records a file of whole lines holds, in file order
RecordsOf(file) ==
  Once([n \in 1..Len(SelectSeq(file, LAMBDA token : token.t = "json")) |->
          AuditEntryParsed(SelectSeq(file, LAMBDA token : token.t = "json")[n].v)])
\* C26: what the stream of a strict read has delivered is the beginning
\* of the file, whatever has been appended meanwhile; a strict read that
\* has ended has raised no fault, and the records it yielded are the
\* first records of the ledger as it is now and as it will be, among them
\* every record the ledger held when the read started.
C26_ReadDuringAppends ==
  /\ reading.mode = "open" => IsPrefix(reading.of, content)
  /\ reading.mode = "strict" /\ output.mode = "readEntries"
       => /\ reading.result.thrown = NoError
          /\ IsPrefix(reading.result.yielded, RecordsOf(content))
          /\ IsPrefix(RecordsOf(output.arg), reading.result.yielded)
\* C26: a strict read that started on a ledger of one record, while two
\* processes were in appendEntry, has yielded that record and the record
\* of the first append and has ended before the second append
C26_Witness ==
  /\ reading.mode = "strict" /\ output.mode = "readEntries"
  /\ Len(RecordsOf(output.arg)) = 1 /\ Len(reading.result.yielded) = 2
  /\ Len(RecordsOf(content)) = 3
  /\ appenders[1].pc = "done" /\ appenders[2].pc = "done"

\* what redaction made of an entry is an entry again, with the
\* identifier and the timestamp it had
SameRecord(of, result) ==
  /\ AuditEntryAccepts(result)
  /\ Get(result, <<"i","d">>) = Get(of, <<"i","d">>)
  /\ Get(result, <<"t","s">>) = Get(of, <<"t","s">>)
\* C29: each entry that a command redacted in redact mode is a valid
\* record with the identifier and the timestamp it had before, and a
\* strict read of the ledger the commands wrote raises no fault.
C29_RedactionKeepsRecord ==
  /\ last.config.enabled /\ last.config.mode = "redact"
       => \A n \in 1..Len(last.scanned) : SameRecord(last.scanned[n].of, last.scanned[n].result.value)
  /\ readEntries(exists, content, FALSE).thrown = NoError
\* C29: a command has replaced a secret in the summary of an entry and
\* appended the entry with the identifier and the timestamp it had
C29_Witness ==
  /\ last.config.enabled /\ last.config.mode = "redact" /\ Len(last.scanned) = 1
  /\ last.scanned[1].result.value # last.scanned[1].of
  /\ SameRecord(last.scanned[1].of, last.scanned[1].result.value)
  /\ last.appended = <<last.scanned[1].result.value>>
====
